---- MODULE Spec2Model ----
(***************************************************************************)
(* A model of the GraphSim graph-state stabilizer simulator (src/src/lib.rs).*)
(* The simulator state is the vector of nodes; every node has an adjacency *)
(* list (a Vec, so ordered and able to hold an index more than once) and a *)
(* vertex operator.  Every method of GraphSim is an operator on a simulator*)
(* value g = [nodes, fault]; `fault` records a panic of the running call.  *)
(***************************************************************************)
EXTENDS Integers, Sequences, FiniteSets, TLC

(* Bounds of the model. *)
MaxN == 3
MaxOps == 3
MaxPeek == 2
MaxVopN == 2
MaxVopOps == 1
MaxInternalN == 4
MaxInternalOps == 1

(* enum Vop: the 24 local Clifford operators, numbered as `vop as usize`
   (Vop::IF is written IF_). *)
IA == 0
XA == 1
YA == 2
ZA == 3
IB == 4
XB == 5
YB == 6
ZB == 7
IC == 8
XC == 9
YC == 10
ZC == 11
ID == 12
XD == 13
YD == 14
ZD == 15
IE == 16
XE == 17
YE == 18
ZE == 19
IF_ == 20
XF == 21
YF == 22
ZF == 23

(* enum Axis, numbered as `axis as usize`. *)
Axis_X == 0
Axis_Y == 1
Axis_Z == 2

(* VOP_TABLE[a][b]: composition of two VOPs (rows and columns in enum order). *)
VOP_TABLE ==
  << <<IA, XA, YA, ZA, IB, XB, YB, ZB, IC, XC, YC, ZC, ID, XD, YD, ZD, IE, XE, YE, ZE, IF_, XF, YF, ZF>>,
     <<XA, IA, ZA, YA, YB, ZB, IB, XB, ZC, YC, XC, IC, XD, ID, ZD, YD, ZE, YE, XE, IE, YF, ZF, IF_, XF>>,
     <<YA, ZA, IA, XA, XB, IB, ZB, YB, YC, ZC, IC, XC, ZD, YD, XD, ID, XE, IE, ZE, YE, ZF, YF, XF, IF_>>,
     <<ZA, YA, XA, IA, ZB, YB, XB, IB, XC, IC, ZC, YC, YD, ZD, ID, XD, YE, ZE, IE, XE, XF, IF_, ZF, YF>>,
     <<IB, XB, YB, ZB, IA, XA, YA, ZA, IF_, XF, YF, ZF, IE, XE, YE, ZE, ID, XD, YD, ZD, IC, XC, YC, ZC>>,
     <<XB, IB, ZB, YB, YA, ZA, IA, XA, ZF, YF, XF, IF_, XE, IE, ZE, YE, ZD, YD, XD, ID, YC, ZC, IC, XC>>,
     <<YB, ZB, IB, XB, XA, IA, ZA, YA, YF, ZF, IF_, XF, ZE, YE, XE, IE, XD, ID, ZD, YD, ZC, YC, XC, IC>>,
     <<ZB, YB, XB, IB, ZA, YA, XA, IA, XF, IF_, ZF, YF, YE, ZE, IE, XE, YD, ZD, ID, XD, XC, IC, ZC, YC>>,
     <<IC, XC, YC, ZC, IE, XE, YE, ZE, IA, XA, YA, ZA, IF_, XF, YF, ZF, IB, XB, YB, ZB, ID, XD, YD, ZD>>,
     <<XC, IC, ZC, YC, YE, ZE, IE, XE, ZA, YA, XA, IA, XF, IF_, ZF, YF, ZB, YB, XB, IB, YD, ZD, ID, XD>>,
     <<YC, ZC, IC, XC, XE, IE, ZE, YE, YA, ZA, IA, XA, ZF, YF, XF, IF_, XB, IB, ZB, YB, ZD, YD, XD, ID>>,
     <<ZC, YC, XC, IC, ZE, YE, XE, IE, XA, IA, ZA, YA, YF, ZF, IF_, XF, YB, ZB, IB, XB, XD, ID, ZD, YD>>,
     <<ID, XD, YD, ZD, IF_, XF, YF, ZF, IE, XE, YE, ZE, IA, XA, YA, ZA, IC, XC, YC, ZC, IB, XB, YB, ZB>>,
     <<XD, ID, ZD, YD, YF, ZF, IF_, XF, ZE, YE, XE, IE, XA, IA, ZA, YA, ZC, YC, XC, IC, YB, ZB, IB, XB>>,
     <<YD, ZD, ID, XD, XF, IF_, ZF, YF, YE, ZE, IE, XE, ZA, YA, XA, IA, XC, IC, ZC, YC, ZB, YB, XB, IB>>,
     <<ZD, YD, XD, ID, ZF, YF, XF, IF_, XE, IE, ZE, YE, YA, ZA, IA, XA, YC, ZC, IC, XC, XB, IB, ZB, YB>>,
     <<IE, XE, YE, ZE, IC, XC, YC, ZC, ID, XD, YD, ZD, IB, XB, YB, ZB, IF_, XF, YF, ZF, IA, XA, YA, ZA>>,
     <<XE, IE, ZE, YE, YC, ZC, IC, XC, ZD, YD, XD, ID, XB, IB, ZB, YB, ZF, YF, XF, IF_, YA, ZA, IA, XA>>,
     <<YE, ZE, IE, XE, XC, IC, ZC, YC, YD, ZD, ID, XD, ZB, YB, XB, IB, XF, IF_, ZF, YF, ZA, YA, XA, IA>>,
     <<ZE, YE, XE, IE, ZC, YC, XC, IC, XD, ID, ZD, YD, YB, ZB, IB, XB, YF, ZF, IF_, XF, XA, IA, ZA, YA>>,
     <<IF_, XF, YF, ZF, ID, XD, YD, ZD, IB, XB, YB, ZB, IC, XC, YC, ZC, IA, XA, YA, ZA, IE, XE, YE, ZE>>,
     <<XF, IF_, ZF, YF, YD, ZD, ID, XD, ZB, YB, XB, IB, XC, IC, ZC, YC, ZA, YA, XA, IA, YE, ZE, IE, XE>>,
     <<YF, ZF, IF_, XF, XD, ID, ZD, YD, YB, ZB, IB, XB, ZC, YC, XC, IC, XA, IA, ZA, YA, ZE, YE, XE, IE>>,
     <<ZF, YF, XF, IF_, ZD, YD, XD, ID, XB, IB, ZB, YB, YC, ZC, IC, XC, YA, ZA, IA, XA, XE, IE, ZE, YE>> >>

ADJ_TABLE ==
  <<IA, XA, YA, ZA, IB, YB, XB, ZB, IC, ZC, YC, XC, ID, XD, ZD, YD, IF_, YF, ZF, XF, IE, ZE, XE, YE>>

DETM_TABLE ==
  <<Axis_X, Axis_X, Axis_X, Axis_X, Axis_Y, Axis_Y, Axis_Y, Axis_Y, Axis_Z, Axis_Z, Axis_Z, Axis_Z, Axis_X, Axis_X, Axis_X, Axis_X, Axis_Z, Axis_Z, Axis_Z, Axis_Z, Axis_Y, Axis_Y, Axis_Y, Axis_Y>>

CONJ_TABLE ==
  << <<Axis_X, Axis_X, Axis_X, Axis_X, Axis_Y, Axis_Y, Axis_Y, Axis_Y, Axis_Z, Axis_Z, Axis_Z, Axis_Z, Axis_X, Axis_X, Axis_X, Axis_X, Axis_Y, Axis_Y, Axis_Y, Axis_Y, Axis_Z, Axis_Z, Axis_Z, Axis_Z>>,
     <<Axis_Y, Axis_Y, Axis_Y, Axis_Y, Axis_X, Axis_X, Axis_X, Axis_X, Axis_Y, Axis_Y, Axis_Y, Axis_Y, Axis_Z, Axis_Z, Axis_Z, Axis_Z, Axis_Z, Axis_Z, Axis_Z, Axis_Z, Axis_X, Axis_X, Axis_X, Axis_X>>,
     <<Axis_Z, Axis_Z, Axis_Z, Axis_Z, Axis_Z, Axis_Z, Axis_Z, Axis_Z, Axis_X, Axis_X, Axis_X, Axis_X, Axis_Y, Axis_Y, Axis_Y, Axis_Y, Axis_X, Axis_X, Axis_X, Axis_X, Axis_Y, Axis_Y, Axis_Y, Axis_Y>> >>

(* CPHASE_TABLE[had_edge][control vop][target vop] = <<new edge, control vop, target vop>>. *)
CPHASE_TABLE ==
  << << <<<<TRUE, IA, IA>>, <<TRUE, IA, IA>>, <<TRUE, IA, ZA>>, <<TRUE, IA, ZA>>, <<TRUE, IA, XB>>, <<TRUE, IA, XB>>, <<TRUE, IA, YB>>, <<TRUE, IA, YB>>, <<FALSE, ZA, IC>>, <<FALSE, ZA, IC>>, <<FALSE, IA, YC>>, <<FALSE, IA, YC>>, <<TRUE, IA, ZA>>, <<TRUE, IA, ZA>>, <<TRUE, IA, IA>>, <<TRUE, IA, IA>>, <<TRUE, IA, YB>>, <<TRUE, IA, YB>>, <<TRUE, IA, XB>>, <<TRUE, IA, XB>>, <<FALSE, IA, YC>>, <<FALSE, IA, YC>>, <<FALSE, ZA, IC>>, <<FALSE, ZA, IC>>>>,
        <<<<TRUE, IA, IA>>, <<TRUE, IA, IA>>, <<TRUE, IA, ZA>>, <<TRUE, IA, ZA>>, <<TRUE, IA, XB>>, <<TRUE, IA, XB>>, <<TRUE, IA, YB>>, <<TRUE, IA, YB>>, <<FALSE, YA, IC>>, <<FALSE, YA, IC>>, <<FALSE, IA, YC>>, <<FALSE, IA, YC>>, <<TRUE, IA, ZA>>, <<TRUE, IA, ZA>>, <<TRUE, IA, IA>>, <<TRUE, IA, IA>>, <<TRUE, IA, YB>>, <<TRUE, IA, YB>>, <<TRUE, IA, XB>>, <<TRUE, IA, XB>>, <<FALSE, IA, YC>>, <<FALSE, IA, YC>>, <<FALSE, YA, IC>>, <<FALSE, YA, IC>>>>,
        <<<<TRUE, YA, ZA>>, <<TRUE, IA, XA>>, <<TRUE, IA, YA>>, <<TRUE, YA, IA>>, <<TRUE, IA, IB>>, <<TRUE, YA, YB>>, <<TRUE, YA, XB>>, <<TRUE, IA, ZB>>, <<FALSE, IA, IC>>, <<FALSE, IA, IC>>, <<FALSE, YA, YC>>, <<FALSE, YA, YC>>, <<TRUE, IA, YA>>, <<TRUE, IA, YA>>, <<TRUE, IA, XA>>, <<TRUE, IA, XA>>, <<TRUE, IA, ZB>>, <<TRUE, IA, ZB>>, <<TRUE, IA, IB>>, <<TRUE, IA, IB>>, <<FALSE, YA, YC>>, <<FALSE, YA, YC>>, <<FALSE, IA, IC>>, <<FALSE, IA, IC>>>>,
        <<<<TRUE, ZA, IA>>, <<TRUE, IA, XA>>, <<TRUE, IA, YA>>, <<TRUE, ZA, ZA>>, <<TRUE, IA, IB>>, <<TRUE, ZA, XB>>, <<TRUE, ZA, YB>>, <<TRUE, IA, ZB>>, <<FALSE, IA, IC>>, <<FALSE, IA, IC>>, <<FALSE, ZA, YC>>, <<FALSE, ZA, YC>>, <<TRUE, IA, YA>>, <<TRUE, IA, YA>>, <<TRUE, IA, XA>>, <<TRUE, IA, XA>>, <<TRUE, IA, ZB>>, <<TRUE, IA, ZB>>, <<TRUE, IA, IB>>, <<TRUE, IA, IB>>, <<FALSE, ZA, YC>>, <<FALSE, ZA, YC>>, <<FALSE, IA, IC>>, <<FALSE, IA, IC>>>>,
        <<<<TRUE, IB, ZA>>, <<TRUE, IB, ZA>>, <<TRUE, IB, IA>>, <<TRUE, IB, IA>>, <<TRUE, IB, YB>>, <<TRUE, IB, YB>>, <<TRUE, IB, XB>>, <<TRUE, IB, XB>>, <<FALSE, YB, IC>>, <<FALSE, YB, IC>>, <<FALSE, IB, YC>>, <<FALSE, IB, YC>>, <<TRUE, IB, IA>>, <<TRUE, IB, IA>>, <<TRUE, IB, ZA>>, <<TRUE, IB, ZA>>, <<TRUE, IB, XB>>, <<TRUE, IB, XB>>, <<TRUE, IB, YB>>, <<TRUE, IB, YB>>, <<FALSE, IB, YC>>, <<FALSE, IB, YC>>, <<FALSE, YB, IC>>, <<FALSE, YB, IC>>>>,
        <<<<TRUE, XB, IA>>, <<TRUE, XB, IA>>, <<TRUE, XB, ZA>>, <<TRUE, XB, ZA>>, <<TRUE, XB, XB>>, <<TRUE, XB, XB>>, <<TRUE, XB, YB>>, <<TRUE, XB, YB>>, <<FALSE, YB, IC>>, <<FALSE, YB, IC>>, <<FALSE, XB, YC>>, <<FALSE, XB, YC>>, <<TRUE, XB, ZA>>, <<TRUE, XB, ZA>>, <<TRUE, XB, IA>>, <<TRUE, XB, IA>>, <<TRUE, XB, YB>>, <<TRUE, XB, YB>>, <<TRUE, XB, XB>>, <<TRUE, XB, XB>>, <<FALSE, XB, YC>>, <<FALSE, XB, YC>>, <<FALSE, YB, IC>>, <<FALSE, YB, IC>>>>,
        <<<<TRUE, YB, IA>>, <<TRUE, XB, XA>>, <<TRUE, XB, YA>>, <<TRUE, YB, ZA>>, <<TRUE, XB, IB>>, <<TRUE, YB, XB>>, <<TRUE, YB, YB>>, <<TRUE, XB, ZB>>, <<FALSE, XB, IC>>, <<FALSE, XB, IC>>, <<FALSE, YB, YC>>, <<FALSE, YB, YC>>, <<TRUE, XB, YA>>, <<TRUE, XB, YA>>, <<TRUE, XB, XA>>, <<TRUE, XB, XA>>, <<TRUE, XB, ZB>>, <<TRUE, XB, ZB>>, <<TRUE, XB, IB>>, <<TRUE, XB, IB>>, <<FALSE, YB, YC>>, <<FALSE, YB, YC>>, <<FALSE, XB, IC>>, <<FALSE, XB, IC>>>>,
        <<<<TRUE, YB, IA>>, <<TRUE, IB, YA>>, <<TRUE, IB, XA>>, <<TRUE, YB, ZA>>, <<TRUE, IB, ZB>>, <<TRUE, YB, XB>>, <<TRUE, YB, YB>>, <<TRUE, IB, IB>>, <<FALSE, IB, IC>>, <<FALSE, IB, IC>>, <<FALSE, YB, YC>>, <<FALSE, YB, YC>>, <<TRUE, IB, XA>>, <<TRUE, IB, XA>>, <<TRUE, IB, YA>>, <<TRUE, IB, YA>>, <<TRUE, IB, IB>>, <<TRUE, IB, IB>>, <<TRUE, IB, ZB>>, <<TRUE, IB, ZB>>, <<FALSE, YB, YC>>, <<FALSE, YB, YC>>, <<FALSE, IB, IC>>, <<FALSE, IB, IC>>>>,
        <<<<FALSE, IC, ZA>>, <<FALSE, IC, YA>>, <<FALSE, IC, IA>>, <<FALSE, IC, IA>>, <<FALSE, IC, YB>>, <<FALSE, IC, YB>>, <<FALSE, IC, XB>>, <<FALSE, IC, IB>>, <<FALSE, IC, IC>>, <<FALSE, IC, IC>>, <<FALSE, IC, YC>>, <<FALSE, IC, YC>>, <<FALSE, IC, IA>>, <<FALSE, IC, IA>>, <<FALSE, IC, YA>>, <<FALSE, IC, YA>>, <<FALSE, IC, IB>>, <<FALSE, IC, IB>>, <<FALSE, IC, YB>>, <<FALSE, IC, YB>>, <<FALSE, IC, YC>>, <<FALSE, IC, YC>>, <<FALSE, IC, IC>>, <<FALSE, IC, IC>>>>,
        <<<<FALSE, IC, ZA>>, <<FALSE, IC, YA>>, <<FALSE, IC, IA>>, <<FALSE, IC, IA>>, <<FALSE, IC, YB>>, <<FALSE, IC, YB>>, <<FALSE, IC, XB>>, <<FALSE, IC, IB>>, <<FALSE, IC, IC>>, <<FALSE, IC, IC>>, <<FALSE, IC, YC>>, <<FALSE, IC, YC>>, <<FALSE, IC, IA>>, <<FALSE, IC, IA>>, <<FALSE, IC, YA>>, <<FALSE, IC, YA>>, <<FALSE, IC, IB>>, <<FALSE, IC, IB>>, <<FALSE, IC, YB>>, <<FALSE, IC, YB>>, <<FALSE, IC, YC>>, <<FALSE, IC, YC>>, <<FALSE, IC, IC>>, <<FALSE, IC, IC>>>>,
        <<<<FALSE, YC, IA>>, <<FALSE, YC, IA>>, <<FALSE, YC, YA>>, <<FALSE, YC, ZA>>, <<FALSE, YC, IB>>, <<FALSE, YC, XB>>, <<FALSE, YC, YB>>, <<FALSE, YC, YB>>, <<FALSE, YC, IC>>, <<FALSE, YC, IC>>, <<FALSE, YC, YC>>, <<FALSE, YC, YC>>, <<FALSE, YC, YA>>, <<FALSE, YC, YA>>, <<FALSE, YC, IA>>, <<FALSE, YC, IA>>, <<FALSE, YC, YB>>, <<FALSE, YC, YB>>, <<FALSE, YC, IB>>, <<FALSE, YC, IB>>, <<FALSE, YC, YC>>, <<FALSE, YC, YC>>, <<FALSE, YC, IC>>, <<FALSE, YC, IC>>>>,
        <<<<FALSE, YC, IA>>, <<FALSE, YC, IA>>, <<FALSE, YC, YA>>, <<FALSE, YC, ZA>>, <<FALSE, YC, IB>>, <<FALSE, YC, XB>>, <<FALSE, YC, YB>>, <<FALSE, YC, YB>>, <<FALSE, YC, IC>>, <<FALSE, YC, IC>>, <<FALSE, YC, YC>>, <<FALSE, YC, YC>>, <<FALSE, YC, YA>>, <<FALSE, YC, YA>>, <<FALSE, YC, IA>>, <<FALSE, YC, IA>>, <<FALSE, YC, YB>>, <<FALSE, YC, YB>>, <<FALSE, YC, IB>>, <<FALSE, YC, IB>>, <<FALSE, YC, YC>>, <<FALSE, YC, YC>>, <<FALSE, YC, IC>>, <<FALSE, YC, IC>>>>,
        <<<<TRUE, YA, ZA>>, <<TRUE, IA, XA>>, <<TRUE, IA, YA>>, <<TRUE, YA, IA>>, <<TRUE, IA, IB>>, <<TRUE, YA, YB>>, <<TRUE, YA, XB>>, <<TRUE, IA, ZB>>, <<FALSE, IA, IC>>, <<FALSE, IA, IC>>, <<FALSE, YA, YC>>, <<FALSE, YA, YC>>, <<TRUE, IA, YA>>, <<TRUE, IA, YA>>, <<TRUE, IA, XA>>, <<TRUE, IA, XA>>, <<TRUE, IA, ZB>>, <<TRUE, IA, ZB>>, <<TRUE, IA, IB>>, <<TRUE, IA, IB>>, <<FALSE, YA, YC>>, <<FALSE, YA, YC>>, <<FALSE, IA, IC>>, <<FALSE, IA, IC>>>>,
        <<<<TRUE, YA, ZA>>, <<TRUE, IA, XA>>, <<TRUE, IA, YA>>, <<TRUE, YA, IA>>, <<TRUE, IA, IB>>, <<TRUE, YA, YB>>, <<TRUE, YA, XB>>, <<TRUE, IA, ZB>>, <<FALSE, IA, IC>>, <<FALSE, IA, IC>>, <<FALSE, YA, YC>>, <<FALSE, YA, YC>>, <<TRUE, IA, YA>>, <<TRUE, IA, YA>>, <<TRUE, IA, XA>>, <<TRUE, IA, XA>>, <<TRUE, IA, ZB>>, <<TRUE, IA, ZB>>, <<TRUE, IA, IB>>, <<TRUE, IA, IB>>, <<FALSE, YA, YC>>, <<FALSE, YA, YC>>, <<FALSE, IA, IC>>, <<FALSE, IA, IC>>>>,
        <<<<TRUE, IA, IA>>, <<TRUE, IA, IA>>, <<TRUE, IA, ZA>>, <<TRUE, IA, ZA>>, <<TRUE, IA, XB>>, <<TRUE, IA, XB>>, <<TRUE, IA, YB>>, <<TRUE, IA, YB>>, <<FALSE, YA, IC>>, <<FALSE, YA, IC>>, <<FALSE, IA, YC>>, <<FALSE, IA, YC>>, <<TRUE, IA, ZA>>, <<TRUE, IA, ZA>>, <<TRUE, IA, IA>>, <<TRUE, IA, IA>>, <<TRUE, IA, YB>>, <<TRUE, IA, YB>>, <<TRUE, IA, XB>>, <<TRUE, IA, XB>>, <<FALSE, IA, YC>>, <<FALSE, IA, YC>>, <<FALSE, YA, IC>>, <<FALSE, YA, IC>>>>,
        <<<<TRUE, IA, IA>>, <<TRUE, IA, IA>>, <<TRUE, IA, ZA>>, <<TRUE, IA, ZA>>, <<TRUE, IA, XB>>, <<TRUE, IA, XB>>, <<TRUE, IA, YB>>, <<TRUE, IA, YB>>, <<FALSE, YA, IC>>, <<FALSE, YA, IC>>, <<FALSE, IA, YC>>, <<FALSE, IA, YC>>, <<TRUE, IA, ZA>>, <<TRUE, IA, ZA>>, <<TRUE, IA, IA>>, <<TRUE, IA, IA>>, <<TRUE, IA, YB>>, <<TRUE, IA, YB>>, <<TRUE, IA, XB>>, <<TRUE, IA, XB>>, <<FALSE, IA, YC>>, <<FALSE, IA, YC>>, <<FALSE, YA, IC>>, <<FALSE, YA, IC>>>>,
        <<<<TRUE, YB, IA>>, <<TRUE, IB, YA>>, <<TRUE, IB, XA>>, <<TRUE, YB, ZA>>, <<TRUE, IB, ZB>>, <<TRUE, YB, XB>>, <<TRUE, YB, YB>>, <<TRUE, IB, IB>>, <<FALSE, IB, IC>>, <<FALSE, IB, IC>>, <<FALSE, YB, YC>>, <<FALSE, YB, YC>>, <<TRUE, IB, XA>>, <<TRUE, IB, XA>>, <<TRUE, IB, YA>>, <<TRUE, IB, YA>>, <<TRUE, IB, IB>>, <<TRUE, IB, IB>>, <<TRUE, IB, ZB>>, <<TRUE, IB, ZB>>, <<FALSE, YB, YC>>, <<FALSE, YB, YC>>, <<FALSE, IB, IC>>, <<FALSE, IB, IC>>>>,
        <<<<TRUE, YB, IA>>, <<TRUE, IB, YA>>, <<TRUE, IB, XA>>, <<TRUE, YB, ZA>>, <<TRUE, IB, ZB>>, <<TRUE, YB, XB>>, <<TRUE, YB, YB>>, <<TRUE, IB, IB>>, <<FALSE, IB, IC>>, <<FALSE, IB, IC>>, <<FALSE, YB, YC>>, <<FALSE, YB, YC>>, <<TRUE, IB, XA>>, <<TRUE, IB, XA>>, <<TRUE, IB, YA>>, <<TRUE, IB, YA>>, <<TRUE, IB, IB>>, <<TRUE, IB, IB>>, <<TRUE, IB, ZB>>, <<TRUE, IB, ZB>>, <<FALSE, YB, YC>>, <<FALSE, YB, YC>>, <<FALSE, IB, IC>>, <<FALSE, IB, IC>>>>,
        <<<<TRUE, IB, ZA>>, <<TRUE, IB, ZA>>, <<TRUE, IB, IA>>, <<TRUE, IB, IA>>, <<TRUE, IB, YB>>, <<TRUE, IB, YB>>, <<TRUE, IB, XB>>, <<TRUE, IB, XB>>, <<FALSE, YB, IC>>, <<FALSE, YB, IC>>, <<FALSE, IB, YC>>, <<FALSE, IB, YC>>, <<TRUE, IB, IA>>, <<TRUE, IB, IA>>, <<TRUE, IB, ZA>>, <<TRUE, IB, ZA>>, <<TRUE, IB, XB>>, <<TRUE, IB, XB>>, <<TRUE, IB, YB>>, <<TRUE, IB, YB>>, <<FALSE, IB, YC>>, <<FALSE, IB, YC>>, <<FALSE, YB, IC>>, <<FALSE, YB, IC>>>>,
        <<<<TRUE, IB, ZA>>, <<TRUE, IB, ZA>>, <<TRUE, IB, IA>>, <<TRUE, IB, IA>>, <<TRUE, IB, YB>>, <<TRUE, IB, YB>>, <<TRUE, IB, XB>>, <<TRUE, IB, XB>>, <<FALSE, YB, IC>>, <<FALSE, YB, IC>>, <<FALSE, IB, YC>>, <<FALSE, IB, YC>>, <<TRUE, IB, IA>>, <<TRUE, IB, IA>>, <<TRUE, IB, ZA>>, <<TRUE, IB, ZA>>, <<TRUE, IB, XB>>, <<TRUE, IB, XB>>, <<TRUE, IB, YB>>, <<TRUE, IB, YB>>, <<FALSE, IB, YC>>, <<FALSE, IB, YC>>, <<FALSE, YB, IC>>, <<FALSE, YB, IC>>>>,
        <<<<FALSE, YC, IA>>, <<FALSE, YC, IA>>, <<FALSE, YC, YA>>, <<FALSE, YC, ZA>>, <<FALSE, YC, IB>>, <<FALSE, YC, XB>>, <<FALSE, YC, YB>>, <<FALSE, YC, YB>>, <<FALSE, YC, IC>>, <<FALSE, YC, IC>>, <<FALSE, YC, YC>>, <<FALSE, YC, YC>>, <<FALSE, YC, YA>>, <<FALSE, YC, YA>>, <<FALSE, YC, IA>>, <<FALSE, YC, IA>>, <<FALSE, YC, YB>>, <<FALSE, YC, YB>>, <<FALSE, YC, IB>>, <<FALSE, YC, IB>>, <<FALSE, YC, YC>>, <<FALSE, YC, YC>>, <<FALSE, YC, IC>>, <<FALSE, YC, IC>>>>,
        <<<<FALSE, YC, IA>>, <<FALSE, YC, IA>>, <<FALSE, YC, YA>>, <<FALSE, YC, ZA>>, <<FALSE, YC, IB>>, <<FALSE, YC, XB>>, <<FALSE, YC, YB>>, <<FALSE, YC, YB>>, <<FALSE, YC, IC>>, <<FALSE, YC, IC>>, <<FALSE, YC, YC>>, <<FALSE, YC, YC>>, <<FALSE, YC, YA>>, <<FALSE, YC, YA>>, <<FALSE, YC, IA>>, <<FALSE, YC, IA>>, <<FALSE, YC, YB>>, <<FALSE, YC, YB>>, <<FALSE, YC, IB>>, <<FALSE, YC, IB>>, <<FALSE, YC, YC>>, <<FALSE, YC, YC>>, <<FALSE, YC, IC>>, <<FALSE, YC, IC>>>>,
        <<<<FALSE, IC, ZA>>, <<FALSE, IC, YA>>, <<FALSE, IC, IA>>, <<FALSE, IC, IA>>, <<FALSE, IC, YB>>, <<FALSE, IC, YB>>, <<FALSE, IC, XB>>, <<FALSE, IC, IB>>, <<FALSE, IC, IC>>, <<FALSE, IC, IC>>, <<FALSE, IC, YC>>, <<FALSE, IC, YC>>, <<FALSE, IC, IA>>, <<FALSE, IC, IA>>, <<FALSE, IC, YA>>, <<FALSE, IC, YA>>, <<FALSE, IC, IB>>, <<FALSE, IC, IB>>, <<FALSE, IC, YB>>, <<FALSE, IC, YB>>, <<FALSE, IC, YC>>, <<FALSE, IC, YC>>, <<FALSE, IC, IC>>, <<FALSE, IC, IC>>>>,
        <<<<FALSE, IC, ZA>>, <<FALSE, IC, YA>>, <<FALSE, IC, IA>>, <<FALSE, IC, IA>>, <<FALSE, IC, YB>>, <<FALSE, IC, YB>>, <<FALSE, IC, XB>>, <<FALSE, IC, IB>>, <<FALSE, IC, IC>>, <<FALSE, IC, IC>>, <<FALSE, IC, YC>>, <<FALSE, IC, YC>>, <<FALSE, IC, IA>>, <<FALSE, IC, IA>>, <<FALSE, IC, YA>>, <<FALSE, IC, YA>>, <<FALSE, IC, IB>>, <<FALSE, IC, IB>>, <<FALSE, IC, YB>>, <<FALSE, IC, YB>>, <<FALSE, IC, YC>>, <<FALSE, IC, YC>>, <<FALSE, IC, IC>>, <<FALSE, IC, IC>>>> >>,
     << <<<<FALSE, IA, IA>>, <<FALSE, ZA, IA>>, <<FALSE, ZA, YA>>, <<FALSE, IA, ZA>>, <<FALSE, ZA, IB>>, <<FALSE, IA, XB>>, <<FALSE, IA, YB>>, <<FALSE, ZA, YB>>, <<TRUE, XB, ZF>>, <<TRUE, XB, YF>>, <<TRUE, XB, XF>>, <<TRUE, XB, IF_>>, <<FALSE, XB, YA>>, <<FALSE, YB, YA>>, <<FALSE, XB, IA>>, <<FALSE, YB, IA>>, <<FALSE, YB, YB>>, <<FALSE, XB, YB>>, <<FALSE, YB, IB>>, <<FALSE, XB, IB>>, <<TRUE, XB, YC>>, <<TRUE, XB, ZC>>, <<TRUE, XB, IC>>, <<TRUE, XB, XC>>>>,
        <<<<FALSE, IA, ZA>>, <<FALSE, YA, YA>>, <<FALSE, YA, IA>>, <<FALSE, IA, IA>>, <<FALSE, YA, YB>>, <<FALSE, IA, YB>>, <<FALSE, IA, XB>>, <<FALSE, YA, IB>>, <<TRUE, IB, ZF>>, <<TRUE, IB, YF>>, <<TRUE, IB, XF>>, <<TRUE, IB, IF_>>, <<FALSE, YB, IA>>, <<FALSE, IB, IA>>, <<FALSE, YB, YA>>, <<FALSE, IB, YA>>, <<FALSE, IB, IB>>, <<FALSE, YB, IB>>, <<FALSE, IB, YB>>, <<FALSE, YB, YB>>, <<TRUE, IB, YC>>, <<TRUE, IB, ZC>>, <<TRUE, IB, IC>>, <<TRUE, IB, XC>>>>,
        <<<<FALSE, YA, ZA>>, <<FALSE, IA, YA>>, <<FALSE, IA, IA>>, <<FALSE, YA, IA>>, <<FALSE, IA, YB>>, <<FALSE, YA, YB>>, <<FALSE, YA, XB>>, <<FALSE, IA, IB>>, <<TRUE, IB, YF>>, <<TRUE, IB, ZF>>, <<TRUE, IB, IF_>>, <<TRUE, IB, XF>>, <<FALSE, IB, IA>>, <<FALSE, YB, IA>>, <<FALSE, IB, YA>>, <<FALSE, YB, YA>>, <<FALSE, YB, IB>>, <<FALSE, IB, IB>>, <<FALSE, YB, YB>>, <<FALSE, IB, YB>>, <<TRUE, IB, ZC>>, <<TRUE, IB, YC>>, <<TRUE, IB, XC>>, <<TRUE, IB, IC>>>>,
        <<<<FALSE, ZA, IA>>, <<FALSE, IA, IA>>, <<FALSE, IA, YA>>, <<FALSE, ZA, ZA>>, <<FALSE, IA, IB>>, <<FALSE, ZA, XB>>, <<FALSE, ZA, YB>>, <<FALSE, IA, YB>>, <<TRUE, XB, YF>>, <<TRUE, XB, ZF>>, <<TRUE, XB, IF_>>, <<TRUE, XB, XF>>, <<FALSE, YB, YA>>, <<FALSE, XB, YA>>, <<FALSE, YB, IA>>, <<FALSE, XB, IA>>, <<FALSE, XB, YB>>, <<FALSE, YB, YB>>, <<FALSE, XB, IB>>, <<FALSE, YB, IB>>, <<TRUE, XB, ZC>>, <<TRUE, XB, YC>>, <<TRUE, XB, XC>>, <<TRUE, XB, IC>>>>,
        <<<<FALSE, IB, ZA>>, <<FALSE, YB, YA>>, <<FALSE, YB, IA>>, <<FALSE, IB, IA>>, <<FALSE, YB, YB>>, <<FALSE, IB, YB>>, <<FALSE, IB, XB>>, <<FALSE, YB, IB>>, <<TRUE, IA, XF>>, <<TRUE, IA, IF_>>, <<TRUE, IA, ZF>>, <<TRUE, IA, YF>>, <<FALSE, IA, IA>>, <<FALSE, YA, IA>>, <<FALSE, IA, YA>>, <<FALSE, YA, YA>>, <<FALSE, YA, IB>>, <<FALSE, IA, IB>>, <<FALSE, YA, YB>>, <<FALSE, IA, YB>>, <<TRUE, IA, IC>>, <<TRUE, IA, XC>>, <<TRUE, IA, YC>>, <<TRUE, IA, ZC>>>>,
        <<<<FALSE, XB, IA>>, <<FALSE, YB, IA>>, <<FALSE, YB, YA>>, <<FALSE, XB, ZA>>, <<FALSE, YB, IB>>, <<FALSE, XB, XB>>, <<FALSE, XB, YB>>, <<FALSE, YB, YB>>, <<TRUE, IA, YF>>, <<TRUE, IA, ZF>>, <<TRUE, IA, IF_>>, <<TRUE, IA, XF>>, <<FALSE, ZA, YA>>, <<FALSE, IA, YA>>, <<FALSE, ZA, IA>>, <<FALSE, IA, IA>>, <<FALSE, IA, YB>>, <<FALSE, ZA, YB>>, <<FALSE, IA, IB>>, <<FALSE, ZA, IB>>, <<TRUE, IA, ZC>>, <<TRUE, IA, YC>>, <<TRUE, IA, XC>>, <<TRUE, IA, IC>>>>,
        <<<<FALSE, YB, IA>>, <<FALSE, XB, IA>>, <<FALSE, XB, YA>>, <<FALSE, YB, ZA>>, <<FALSE, XB, IB>>, <<FALSE, YB, XB>>, <<FALSE, YB, YB>>, <<FALSE, XB, YB>>, <<TRUE, IA, ZF>>, <<TRUE, IA, YF>>, <<TRUE, IA, XF>>, <<TRUE, IA, IF_>>, <<FALSE, IA, YA>>, <<FALSE, ZA, YA>>, <<FALSE, IA, IA>>, <<FALSE, ZA, IA>>, <<FALSE, ZA, YB>>, <<FALSE, IA, YB>>, <<FALSE, ZA, IB>>, <<FALSE, IA, IB>>, <<TRUE, IA, YC>>, <<TRUE, IA, ZC>>, <<TRUE, IA, IC>>, <<TRUE, IA, XC>>>>,
        <<<<FALSE, YB, ZA>>, <<FALSE, IB, YA>>, <<FALSE, IB, IA>>, <<FALSE, YB, IA>>, <<FALSE, IB, YB>>, <<FALSE, YB, YB>>, <<FALSE, YB, XB>>, <<FALSE, IB, IB>>, <<TRUE, IA, IF_>>, <<TRUE, IA, XF>>, <<TRUE, IA, YF>>, <<TRUE, IA, ZF>>, <<FALSE, YA, IA>>, <<FALSE, IA, IA>>, <<FALSE, YA, YA>>, <<FALSE, IA, YA>>, <<FALSE, IA, IB>>, <<FALSE, YA, IB>>, <<FALSE, IA, YB>>, <<FALSE, YA, YB>>, <<TRUE, IA, XC>>, <<TRUE, IA, IC>>, <<TRUE, IA, ZC>>, <<TRUE, IA, YC>>>>,
        <<<<TRUE, YF, YB>>, <<TRUE, IF_, XB>>, <<TRUE, IF_, YB>>, <<TRUE, YF, XB>>, <<TRUE, IF_, ZA>>, <<TRUE, YF, IA>>, <<TRUE, YF, ZA>>, <<TRUE, IF_, IA>>, <<FALSE, IA, IA>>, <<FALSE, IA, YA>>, <<FALSE, YA, YA>>, <<FALSE, YA, IA>>, <<FALSE, YB, YB>>, <<FALSE, IB, IB>>, <<FALSE, YB, IB>>, <<FALSE, IB, YB>>, <<FALSE, IB, YA>>, <<FALSE, YB, IA>>, <<FALSE, IB, IA>>, <<FALSE, YB, YA>>, <<FALSE, YA, IB>>, <<FALSE, YA, YB>>, <<FALSE, IA, YB>>, <<FALSE, IA, IB>>>>,
        <<<<TRUE, YF, XB>>, <<TRUE, IF_, YB>>, <<TRUE, IF_, XB>>, <<TRUE, YF, YB>>, <<TRUE, IF_, IA>>, <<TRUE, YF, ZA>>, <<TRUE, YF, IA>>, <<TRUE, IF_, ZA>>, <<FALSE, YA, IA>>, <<FALSE, YA, YA>>, <<FALSE, IA, YA>>, <<FALSE, IA, IA>>, <<FALSE, IB, YB>>, <<FALSE, YB, IB>>, <<FALSE, IB, IB>>, <<FALSE, YB, YB>>, <<FALSE, YB, YA>>, <<FALSE, IB, IA>>, <<FALSE, YB, IA>>, <<FALSE, IB, YA>>, <<FALSE, IA, IB>>, <<FALSE, IA, YB>>, <<FALSE, YA, YB>>, <<FALSE, YA, IB>>>>,
        <<<<TRUE, IF_, YB>>, <<TRUE, IF_, ZB>>, <<TRUE, IF_, IB>>, <<TRUE, IF_, XB>>, <<TRUE, IF_, XA>>, <<TRUE, IF_, IA>>, <<TRUE, IF_, ZA>>, <<TRUE, IF_, YA>>, <<FALSE, YA, YA>>, <<FALSE, YA, IA>>, <<FALSE, IA, IA>>, <<FALSE, IA, YA>>, <<FALSE, YB, IB>>, <<FALSE, IB, YB>>, <<FALSE, YB, YB>>, <<FALSE, IB, IB>>, <<FALSE, IB, IA>>, <<FALSE, YB, YA>>, <<FALSE, IB, YA>>, <<FALSE, YB, IA>>, <<FALSE, IA, YB>>, <<FALSE, IA, IB>>, <<FALSE, YA, IB>>, <<FALSE, YA, YB>>>>,
        <<<<TRUE, IF_, XB>>, <<TRUE, IF_, IB>>, <<TRUE, IF_, ZB>>, <<TRUE, IF_, YB>>, <<TRUE, IF_, YA>>, <<TRUE, IF_, ZA>>, <<TRUE, IF_, IA>>, <<TRUE, IF_, XA>>, <<FALSE, IA, YA>>, <<FALSE, IA, IA>>, <<FALSE, YA, IA>>, <<FALSE, YA, YA>>, <<FALSE, IB, IB>>, <<FALSE, YB, YB>>, <<FALSE, IB, YB>>, <<FALSE, YB, IB>>, <<FALSE, YB, IA>>, <<FALSE, IB, YA>>, <<FALSE, YB, YA>>, <<FALSE, IB, IA>>, <<FALSE, YA, YB>>, <<FALSE, YA, IB>>, <<FALSE, IA, IB>>, <<FALSE, IA, YB>>>>,
        <<<<FALSE, YA, XB>>, <<FALSE, IA, YB>>, <<FALSE, IA, IB>>, <<FALSE, YA, YB>>, <<FALSE, IA, IA>>, <<FALSE, YA, ZA>>, <<FALSE, YA, IA>>, <<FALSE, IA, YA>>, <<FALSE, YB, YB>>, <<FALSE, YB, IB>>, <<FALSE, IB, YB>>, <<FALSE, IB, IB>>, <<TRUE, IE, YE>>, <<TRUE, IE, ZE>>, <<TRUE, IE, IE>>, <<TRUE, IE, XE>>, <<TRUE, IE, ID>>, <<TRUE, IE, XD>>, <<TRUE, IE, YD>>, <<TRUE, IE, ZD>>, <<FALSE, IB, YA>>, <<FALSE, IB, IA>>, <<FALSE, YB, YA>>, <<FALSE, YB, IA>>>>,
        <<<<FALSE, YA, YB>>, <<FALSE, IA, IB>>, <<FALSE, IA, YB>>, <<FALSE, YA, XB>>, <<FALSE, IA, YA>>, <<FALSE, YA, IA>>, <<FALSE, YA, ZA>>, <<FALSE, IA, IA>>, <<FALSE, IB, IB>>, <<FALSE, IB, YB>>, <<FALSE, YB, IB>>, <<FALSE, YB, YB>>, <<TRUE, IE, XE>>, <<TRUE, IE, IE>>, <<TRUE, IE, ZE>>, <<TRUE, IE, YE>>, <<TRUE, IE, ZD>>, <<TRUE, IE, YD>>, <<TRUE, IE, XD>>, <<TRUE, IE, ID>>, <<FALSE, YB, IA>>, <<FALSE, YB, YA>>, <<FALSE, IB, IA>>, <<FALSE, IB, YA>>>>,
        <<<<FALSE, IA, XB>>, <<FALSE, YA, YB>>, <<FALSE, YA, IB>>, <<FALSE, IA, YB>>, <<FALSE, YA, IA>>, <<FALSE, IA, ZA>>, <<FALSE, IA, IA>>, <<FALSE, YA, YA>>, <<FALSE, IB, YB>>, <<FALSE, IB, IB>>, <<FALSE, YB, YB>>, <<FALSE, YB, IB>>, <<TRUE, IE, IE>>, <<TRUE, IE, XE>>, <<TRUE, IE, YE>>, <<TRUE, IE, ZE>>, <<TRUE, IE, YD>>, <<TRUE, IE, ZD>>, <<TRUE, IE, ID>>, <<TRUE, IE, XD>>, <<FALSE, YB, YA>>, <<FALSE, YB, IA>>, <<FALSE, IB, YA>>, <<FALSE, IB, IA>>>>,
        <<<<FALSE, IA, YB>>, <<FALSE, YA, IB>>, <<FALSE, YA, YB>>, <<FALSE, IA, XB>>, <<FALSE, YA, YA>>, <<FALSE, IA, IA>>, <<FALSE, IA, ZA>>, <<FALSE, YA, IA>>, <<FALSE, YB, IB>>, <<FALSE, YB, YB>>, <<FALSE, IB, IB>>, <<FALSE, IB, YB>>, <<TRUE, IE, ZE>>, <<TRUE, IE, YE>>, <<TRUE, IE, XE>>, <<TRUE, IE, IE>>, <<TRUE, IE, XD>>, <<TRUE, IE, ID>>, <<TRUE, IE, ZD>>, <<TRUE, IE, YD>>, <<FALSE, IB, IA>>, <<FALSE, IB, YA>>, <<FALSE, YB, IA>>, <<FALSE, YB, YA>>>>,
        <<<<FALSE, YB, YB>>, <<FALSE, IB, IB>>, <<FALSE, IB, YB>>, <<FALSE, YB, XB>>, <<FALSE, IB, YA>>, <<FALSE, YB, IA>>, <<FALSE, YB, ZA>>, <<FALSE, IB, IA>>, <<FALSE, YA, IB>>, <<FALSE, YA, YB>>, <<FALSE, IA, IB>>, <<FALSE, IA, YB>>, <<TRUE, ID, IE>>, <<TRUE, ID, XE>>, <<TRUE, ID, YE>>, <<TRUE, ID, ZE>>, <<TRUE, ID, YD>>, <<TRUE, ID, ZD>>, <<TRUE, ID, ID>>, <<TRUE, ID, XD>>, <<FALSE, IA, IA>>, <<FALSE, IA, YA>>, <<FALSE, YA, IA>>, <<FALSE, YA, YA>>>>,
        <<<<FALSE, YB, XB>>, <<FALSE, IB, YB>>, <<FALSE, IB, IB>>, <<FALSE, YB, YB>>, <<FALSE, IB, IA>>, <<FALSE, YB, ZA>>, <<FALSE, YB, IA>>, <<FALSE, IB, YA>>, <<FALSE, IA, YB>>, <<FALSE, IA, IB>>, <<FALSE, YA, YB>>, <<FALSE, YA, IB>>, <<TRUE, ID, ZE>>, <<TRUE, ID, YE>>, <<TRUE, ID, XE>>, <<TRUE, ID, IE>>, <<TRUE, ID, XD>>, <<TRUE, ID, ID>>, <<TRUE, ID, ZD>>, <<TRUE, ID, YD>>, <<FALSE, YA, YA>>, <<FALSE, YA, IA>>, <<FALSE, IA, YA>>, <<FALSE, IA, IA>>>>,
        <<<<FALSE, IB, YB>>, <<FALSE, YB, IB>>, <<FALSE, YB, YB>>, <<FALSE, IB, XB>>, <<FALSE, YB, YA>>, <<FALSE, IB, IA>>, <<FALSE, IB, ZA>>, <<FALSE, YB, IA>>, <<FALSE, IA, IB>>, <<FALSE, IA, YB>>, <<FALSE, YA, IB>>, <<FALSE, YA, YB>>, <<TRUE, ID, YE>>, <<TRUE, ID, ZE>>, <<TRUE, ID, IE>>, <<TRUE, ID, XE>>, <<TRUE, ID, ID>>, <<TRUE, ID, XD>>, <<TRUE, ID, YD>>, <<TRUE, ID, ZD>>, <<FALSE, YA, IA>>, <<FALSE, YA, YA>>, <<FALSE, IA, IA>>, <<FALSE, IA, YA>>>>,
        <<<<FALSE, IB, XB>>, <<FALSE, YB, YB>>, <<FALSE, YB, IB>>, <<FALSE, IB, YB>>, <<FALSE, YB, IA>>, <<FALSE, IB, ZA>>, <<FALSE, IB, IA>>, <<FALSE, YB, YA>>, <<FALSE, YA, YB>>, <<FALSE, YA, IB>>, <<FALSE, IA, YB>>, <<FALSE, IA, IB>>, <<TRUE, ID, XE>>, <<TRUE, ID, IE>>, <<TRUE, ID, ZE>>, <<TRUE, ID, YE>>, <<TRUE, ID, ZD>>, <<TRUE, ID, YD>>, <<TRUE, ID, XD>>, <<TRUE, ID, ID>>, <<FALSE, IA, YA>>, <<FALSE, IA, IA>>, <<FALSE, YA, YA>>, <<FALSE, YA, IA>>>>,
        <<<<TRUE, YC, XB>>, <<TRUE, IC, YB>>, <<TRUE, IC, XB>>, <<TRUE, YC, YB>>, <<TRUE, IC, IA>>, <<TRUE, YC, ZA>>, <<TRUE, YC, IA>>, <<TRUE, IC, ZA>>, <<FALSE, IB, YA>>, <<FALSE, IB, IA>>, <<FALSE, YB, IA>>, <<FALSE, YB, YA>>, <<FALSE, YA, IB>>, <<FALSE, IA, YB>>, <<FALSE, YA, YB>>, <<FALSE, IA, IB>>, <<FALSE, IA, IA>>, <<FALSE, YA, YA>>, <<FALSE, IA, YA>>, <<FALSE, YA, IA>>, <<FALSE, YB, YB>>, <<FALSE, YB, IB>>, <<FALSE, IB, IB>>, <<FALSE, IB, YB>>>>,
        <<<<TRUE, YC, YB>>, <<TRUE, IC, XB>>, <<TRUE, IC, YB>>, <<TRUE, YC, XB>>, <<TRUE, IC, ZA>>, <<TRUE, YC, IA>>, <<TRUE, YC, ZA>>, <<TRUE, IC, IA>>, <<FALSE, YB, YA>>, <<FALSE, YB, IA>>, <<FALSE, IB, IA>>, <<FALSE, IB, YA>>, <<FALSE, IA, IB>>, <<FALSE, YA, YB>>, <<FALSE, IA, YB>>, <<FALSE, YA, IB>>, <<FALSE, YA, IA>>, <<FALSE, IA, YA>>, <<FALSE, YA, YA>>, <<FALSE, IA, IA>>, <<FALSE, IB, YB>>, <<FALSE, IB, IB>>, <<FALSE, YB, IB>>, <<FALSE, YB, YB>>>>,
        <<<<TRUE, IC, XB>>, <<TRUE, IC, IB>>, <<TRUE, IC, ZB>>, <<TRUE, IC, YB>>, <<TRUE, IC, YA>>, <<TRUE, IC, ZA>>, <<TRUE, IC, IA>>, <<TRUE, IC, XA>>, <<FALSE, YB, IA>>, <<FALSE, YB, YA>>, <<FALSE, IB, YA>>, <<FALSE, IB, IA>>, <<FALSE, YA, YB>>, <<FALSE, IA, IB>>, <<FALSE, YA, IB>>, <<FALSE, IA, YB>>, <<FALSE, IA, YA>>, <<FALSE, YA, IA>>, <<FALSE, IA, IA>>, <<FALSE, YA, YA>>, <<FALSE, IB, IB>>, <<FALSE, IB, YB>>, <<FALSE, YB, YB>>, <<FALSE, YB, IB>>>>,
        <<<<TRUE, IC, YB>>, <<TRUE, IC, ZB>>, <<TRUE, IC, IB>>, <<TRUE, IC, XB>>, <<TRUE, IC, XA>>, <<TRUE, IC, IA>>, <<TRUE, IC, ZA>>, <<TRUE, IC, YA>>, <<FALSE, IB, IA>>, <<FALSE, IB, YA>>, <<FALSE, YB, YA>>, <<FALSE, YB, IA>>, <<FALSE, IA, YB>>, <<FALSE, YA, IB>>, <<FALSE, IA, IB>>, <<FALSE, YA, YB>>, <<FALSE, YA, YA>>, <<FALSE, IA, IA>>, <<FALSE, YA, IA>>, <<FALSE, IA, YA>>, <<FALSE, YB, IB>>, <<FALSE, YB, YB>>, <<FALSE, IB, YB>>, <<FALSE, IB, IB>>>> >> >>

X_GATE == XA
Y_GATE == YA
Z_GATE == ZA
H_GATE == YC
S_GATE == YB
SDAG_GATE == XB

SYMMETRIES == 24
MEAS_AXES == 3

Vops == 0 .. (SYMMETRIES - 1)
Axes == 0 .. (MEAS_AXES - 1)

(* enum MeasurementResult *)
PlusOne == "PlusOne"
MinusOne == "MinusOne"
MeasurementResults == {PlusOne, MinusOne}

(* impl Mul for Vop *)
(* The product with a right factor IA absorbing the left one. *)
mul_absorbing_identity(a, b) ==
  IF b = IA THEN IA ELSE VOP_TABLE[a + 1][b + 1]

mul(a, b) == VOP_TABLE[a + 1][b + 1]

(* Vop::adj *)
(* The adjoint taken to be the VOP itself. *)
adj_same(v) == v

adj(v) == ADJ_TABLE[v + 1]

(* Vop::is_in_z *)
is_in_z(v) == v \in {IA, ZA, YB, XB}

(* The word U for every VOP. *)
decomp_single_u(v) == <<"U">>

(* Vop::decomp: the word over {U, V} of every VOP. *)
decomp(v) ==
  CASE v = IA -> <<"U", "U", "U", "U">>
    [] v = XA -> <<"U", "U">>
    [] v = YA -> <<"U", "U", "V", "V">>
    [] v = ZA -> <<"V", "V">>
    [] v = IB -> <<"U", "U", "V">>
    [] v = XB -> <<"V">>
    [] v = YB -> <<"V", "V", "V">>
    [] v = ZB -> <<"V", "U", "U">>
    [] v = IC -> <<"U", "V", "U">>
    [] v = XC -> <<"U", "U", "U", "V", "U">>
    [] v = YC -> <<"U", "V", "V", "V", "U">>
    [] v = ZC -> <<"U", "V", "U", "U", "U">>
    [] v = ID -> <<"V", "V", "U">>
    [] v = XD -> <<"U", "V", "V">>
    [] v = YD -> <<"U", "U", "U">>
    [] v = ZD -> <<"U">>
    [] v = IE -> <<"U", "V", "V", "V">>
    [] v = XE -> <<"U", "V", "U", "U">>
    [] v = YE -> <<"U", "V">>
    [] v = ZE -> <<"U", "U", "U", "V">>
    [] v = IF_ -> <<"V", "U", "U", "U">>
    [] v = XF -> <<"V", "V", "V", "U">>
    [] v = YF -> <<"V", "U">>
    [] v = ZF -> <<"U", "U", "V", "U">>

(* find_zeta comparing the residue with the axis index, not with index + 1. *)
find_zeta_axis_index(v, axis) ==
  LET rvop == v % 4
      first == (rvop = 0 \/ rvop = axis)
      second == (v >= IB /\ v < IE)
  IN  IF first = second THEN "Two" ELSE "Zero"

(* find_zeta *)
find_zeta(v, axis) ==
  LET rvop == v % 4
      first == (rvop = 0 \/ rvop = axis + 1)
      second == (v >= IB /\ v < IE)
  IN  IF first = second THEN "Two" ELSE "Zero"

(* The flip of a result that measure applies when zeta is Two. *)
flip(res) == IF res = PlusOne THEN MinusOne ELSE PlusOne

(* Node::get_state_str, on the VOP of the node. *)
get_state_str(v) ==
  CASE v \in {IA, XA, YD, ZD} -> "+"
    [] v \in {YA, ZA, ID, XD} -> "-"
    [] v \in {IB, XB, YE, ZE} -> "+i"
    [] v \in {YB, ZB, IE, XE} -> "-i"
    [] v \in {IC, XC, YF, ZF} -> "1"
    [] v \in {YC, ZC, IF_, XF} -> "0"

(* impl Default for Node *)
DefaultNode == [adjacent |-> <<>>, vop |-> YC]

(* GraphSim::new *)
(* new making one node more than asked for. *)
new_one_more(qubit_amount) == [i \in 0 .. qubit_amount |-> DefaultNode]

new(qubit_amount) == [i \in 0 .. (qubit_amount - 1) |-> DefaultNode]

(* A panic of the running call: the nodes keep what the call had written. *)
NoFault == "none"
IndexFault == "index out of bounds"
AssertFault == "debug assertion"
Panic(g, why) == [g EXCEPT !.fault = why]
Ok(g) == g.fault = NoFault

(* impl Index<NodeIdx> for GraphSim: an index is legal when it is below n. *)
InRange(g, index) == index \in DOMAIN g.nodes

(* Node::len *)
len(g, node) == Len(g.nodes[node].adjacent)

(* Vec::contains and Vec::retain(|&v| v != e) on an adjacency list. *)
contains(list, e) == \E i \in 1 .. Len(list) : list[i] = e
retain(list, e) == SelectSeq(list, LAMBDA v : v # e)

(* The factor put on the left: gate * self[node].vop. *)
mul_right_from_left(g, node, gate) ==
  [g EXCEPT !.nodes[node].vop = mul(gate, @)]

(* self[node].vop = self[node].vop * gate *)
mul_right(g, node, gate) ==
  [g EXCEPT !.nodes[node].vop = mul(@, gate)]

(* GraphSim::toggle_edge; the returned bool is toggle_edge_ret. *)
toggle_edge(g, na, nb) ==
  IF ~Ok(g) THEN g
  ELSE
    LET lba == len(g, na)
        lbb == len(g, nb)
        g1 == [g EXCEPT !.nodes[na].adjacent = retain(@, nb)]
        g2 == [g1 EXCEPT !.nodes[nb].adjacent = retain(@, na)]
    IN  IF lba = len(g2, na)
        THEN IF lbb # len(g2, nb)
             THEN Panic(g2, AssertFault)
             ELSE LET g3 == [g2 EXCEPT !.nodes[na].adjacent = Append(@, nb)]
                  IN  [g3 EXCEPT !.nodes[nb].adjacent = Append(@, na)]
        ELSE g2

toggle_edge_ret(g, na, nb) ==
  len(g, na) # Len(retain(g.nodes[na].adjacent, nb))

(* delete_edge removing the entry on the side of na only. *)
delete_edge_one_side(g, na, nb) ==
  IF ~Ok(g) THEN g
  ELSE [g EXCEPT !.nodes[na].adjacent = retain(@, nb)]

(* GraphSim::delete_edge *)
delete_edge(g, na, nb) ==
  IF ~Ok(g) THEN g
  ELSE LET g1 == [g EXCEPT !.nodes[na].adjacent = retain(@, nb)]
       IN  [g1 EXCEPT !.nodes[nb].adjacent = retain(@, na)]

(* GraphSim::local_comp: the loops run to the length read at entry and     *)
(* index the live adjacency list.                                          *)
RECURSIVE local_comp_pairs(_, _, _, _, _)
local_comp_pairs(g, node, i, j, length) ==
  IF ~Ok(g) \/ j >= length THEN g
  ELSE LET list == g.nodes[node].adjacent
       IN  IF i >= Len(list) \/ j >= Len(list)
           THEN Panic(g, IndexFault)
           ELSE local_comp_pairs(toggle_edge(g, list[i + 1], list[j + 1]),
                                 node, i, j + 1, length)

RECURSIVE local_comp_loop(_, _, _, _)
local_comp_loop(g, node, i, length) ==
  IF ~Ok(g) \/ i >= length THEN g
  ELSE LET g1 == local_comp_pairs(g, node, i, i + 1, length)
       IN  IF ~Ok(g1) THEN g1
           ELSE IF i >= len(g1, node) THEN Panic(g1, IndexFault)
           ELSE local_comp_loop(
                  mul_right(g1, g1.nodes[node].adjacent[i + 1], S_GATE),
                  node, i + 1, length)

local_comp(g, node) ==
  LET g1 == local_comp_loop(g, node, 0, len(g, node))
  IN  IF ~Ok(g1) THEN g1 ELSE mul_right(g1, node, YD)

(* GraphSim::remove_vop: the pivot is the first neighbour that is not      *)
(* `avoid`, and `avoid` itself when there is none.                         *)
(* The pivot taken to be `avoid` in every case. *)
remove_vop_second_avoid(g, first, avoid) == avoid

remove_vop_second(g, first, avoid) ==
  LET list == g.nodes[first].adjacent
      others == {i \in 1 .. Len(list) : list[i] # avoid}
  IN  IF others = {} THEN avoid
      ELSE list[CHOOSE i \in others : \A k \in others : i <= k]

RECURSIVE remove_vop_loop(_, _, _, _)
remove_vop_loop(g, first, second, word) ==
  IF ~Ok(g) \/ word = <<>> THEN g
  ELSE remove_vop_loop(
         local_comp(g, IF Head(word) = "U" THEN first ELSE second),
         first, second, Tail(word))

(* The number of local complementations remove_vop asks for: one for     *)
(* every letter of the word.                                               *)
remove_vop_calls(g, first) == Len(decomp(g.nodes[first].vop))

(* remove_vop leaving out the first letter of the word. *)
remove_vop_skip_letter(g, first, avoid) ==
  IF ~Ok(g) THEN g
  ELSE remove_vop_loop(g, first, remove_vop_second(g, first, avoid),
                       Tail(decomp(g.nodes[first].vop)))

remove_vop(g, first, avoid) ==
  IF ~Ok(g) THEN g
  ELSE remove_vop_loop(g, first, remove_vop_second(g, first, avoid),
                       decomp(g.nodes[first].vop))

(* Single-qubit gates: self[qubit].vop = GATE * self[qubit].vop. *)
(* The gate constant multiplied from the right. *)
mul_left_from_right(g, qubit, gate) ==
  IF ~Ok(g) THEN g
  ELSE IF ~InRange(g, qubit) THEN Panic(g, IndexFault)
  ELSE [g EXCEPT !.nodes[qubit].vop = mul(@, gate)]

mul_left(g, qubit, gate) ==
  IF ~Ok(g) THEN g
  ELSE IF ~InRange(g, qubit) THEN Panic(g, IndexFault)
  ELSE [g EXCEPT !.nodes[qubit].vop = mul(gate, @)]

x(g, qubit) == mul_left(g, qubit, X_GATE)
y(g, qubit) == mul_left(g, qubit, Y_GATE)
z(g, qubit) == mul_left(g, qubit, Z_GATE)
(* h multiplying by the constant of s. *)
h_with_s_gate(g, qubit) == mul_left(g, qubit, S_GATE)
h(g, qubit) == mul_left(g, qubit, H_GATE)
s(g, qubit) == mul_left(g, qubit, S_GATE)
(* sdag multiplying by the constant of s. *)
sdag_with_s_gate(g, qubit) == mul_left(g, qubit, S_GATE)
sdag(g, qubit) == mul_left(g, qubit, SDAG_GATE)

(* GraphSim::cz *)
has_other(g, node, partner) ==
  \/ len(g, node) > 1
  \/ (len(g, node) = 1 /\ g.nodes[node].adjacent[1] # partner)

(* The CPHASE lookup that takes the edge to be there. *)
cz_lookup_edge_taken(g, control, target) ==
  LET cv == g.nodes[control].vop
      tv == g.nodes[target].vop
  IN  CPHASE_TABLE[2][cv + 1][tv + 1]

(* The CPHASE lookup with the two VOP indices exchanged. *)
cz_lookup_swapped(g, control, target) ==
  LET cv == g.nodes[control].vop
      tv == g.nodes[target].vop
      had_edge == IF contains(g.nodes[control].adjacent, target) THEN 1 ELSE 0
  IN  CPHASE_TABLE[had_edge + 1][tv + 1][cv + 1]

cz_lookup(g, control, target) ==
  LET cv == g.nodes[control].vop
      tv == g.nodes[target].vop
      had_edge == IF contains(g.nodes[control].adjacent, target) THEN 1 ELSE 0
  IN  CPHASE_TABLE[had_edge + 1][cv + 1][tv + 1]

cz_set_edge(g, control, target, present) ==
  IF present
  THEN LET g1 == [g EXCEPT !.nodes[control].adjacent = Append(@, target)]
       IN  [g1 EXCEPT !.nodes[target].adjacent = Append(@, control)]
  ELSE LET g1 == [g EXCEPT !.nodes[control].adjacent = retain(@, target)]
       IN  [g1 EXCEPT !.nodes[target].adjacent = retain(@, control)]

cz_apply(g, control, target, val) ==
  [cz_set_edge(g, control, target, val[1])
     EXCEPT !.nodes[control].vop = val[2], !.nodes[target].vop = val[3]]

cz_table(g, control, target) ==
  IF ~Ok(g) THEN g
  ELSE cz_apply(g, control, target, cz_lookup(g, control, target))

cz_third(g, control, target, c_has_t) ==
  IF Ok(g) /\ c_has_t /\ ~is_in_z(g.nodes[control].vop)
  THEN remove_vop(g, control, target) ELSE g

cz_second(g, control, target, t_has_c) ==
  IF t_has_c THEN remove_vop(g, target, control) ELSE g

cz_first(g, control, target, c_has_t) ==
  IF c_has_t THEN remove_vop(g, control, target) ELSE g

cz_reduce(g, control, target, c_has_t, t_has_c) ==
  cz_third(cz_second(cz_first(g, control, target, c_has_t),
                     control, target, t_has_c),
           control, target, c_has_t)

cz(g, control, target) ==
  IF ~Ok(g) THEN g
  ELSE IF ~InRange(g, control) \/ ~InRange(g, target) THEN Panic(g, IndexFault)
  ELSE cz_table(cz_reduce(g, control, target,
                          has_other(g, control, target),
                          has_other(g, target, control)),
                control, target)

(* Derived two-qubit gates. *)
cx(g, control, target) == h(cz(h(g, target), control, target), target)
xcx(g, control, target) == h(cx(h(g, control), control, target), control)
ycx(g, control, target) == s(xcx(sdag(g, control), control, target), control)
xcz(g, control, target) == cx(g, target, control)
cy(g, control, target) == s(cx(sdag(g, target), control, target), target)
ycz(g, control, target) == cy(g, target, control)
xcy(g, control, target) == ycx(g, target, control)
ycy(g, control, target) == s(ycx(sdag(g, target), control, target), target)

(* GraphSim::int_measure_x.  A measurement returns [g, res, det, rng]:    *)
(* the simulator, the result, the deterministic flag and the number of     *)
(* draws from the random source.                                           *)
RECURSIVE third_party(_, _, _, _, _)
third_party(g, from, skip, i, size) ==
  (* for i in 0..size: third = self[from].adjacent[i]; Z on third when it  *)
  (* is not `skip`'s partner and not adjacent to the partner.              *)
  IF ~Ok(g) \/ i >= size THEN g
  ELSE IF i >= len(g, from) THEN Panic(g, IndexFault)
  ELSE LET third == g.nodes[from].adjacent[i + 1]
       IN  third_party(
             IF third # skip /\ ~contains(g.nodes[skip].adjacent, third)
             THEN mul_right(g, third, Z_GATE) ELSE g,
             from, skip, i + 1, size)

(* The pair as it comes, not put in order. *)
ordered_as_given(nval, oval) == <<nval, oval>>

ordered(nval, oval) == IF nval < oval THEN <<nval, oval>> ELSE <<oval, nval>>

RECURSIVE x_cross(_, _, _, _, _, _)
x_cross(g, node_nbs, other_nbs, i, j, procced_edges) ==
  IF ~Ok(g) \/ i >= Len(node_nbs) THEN g
  ELSE IF j >= Len(other_nbs)
       THEN x_cross(g, node_nbs, other_nbs, i + 1, 0, procced_edges)
  ELSE LET nval == node_nbs[i + 1]
           oval == other_nbs[j + 1]
           combined == ordered(nval, oval)
       IN  IF nval # oval /\ combined \notin procced_edges
           THEN x_cross(toggle_edge(g, combined[1], combined[2]),
                        node_nbs, other_nbs, i, j + 1,
                        procced_edges \cup {combined})
           ELSE x_cross(g, node_nbs, other_nbs, i, j + 1, procced_edges)

RECURSIVE x_intersection(_, _, _, _)
x_intersection(g, intersection, i, j) ==
  IF ~Ok(g) \/ i >= Len(intersection) THEN g
  ELSE IF j >= Len(intersection)
       THEN x_intersection(g, intersection, i + 1, i + 2)
  ELSE x_intersection(toggle_edge(g, intersection[i + 1], intersection[j + 1]),
                      intersection, i, j + 1)

RECURSIVE x_other(_, _, _, _)
x_other(g, node_nbs, other, i) ==
  IF ~Ok(g) \/ i >= Len(node_nbs) THEN g
  ELSE x_other(IF node_nbs[i + 1] # other
               THEN toggle_edge(g, other, node_nbs[i + 1]) ELSE g,
               node_nbs, other, i + 1)

int_measure_x(g, node, res) ==
  IF g.nodes[node].adjacent = <<>>
  THEN [g |-> g, res |-> PlusOne, det |-> TRUE, rng |-> 0]
  ELSE
    LET other == g.nodes[node].adjacent[1]
        g1 == IF res = PlusOne
              THEN third_party(mul_right(g, other, ZC), node, other, 0,
                               len(g, node))
              ELSE third_party(mul_right(mul_right(g, other, XC), node, ZA),
                               other, node, 0, len(g, other))
        node_nbs == g1.nodes[node].adjacent
        other_nbs == g1.nodes[other].adjacent
        g2 == x_cross(g1, node_nbs, other_nbs, 0, 0, {})
        intersection == SelectSeq(node_nbs, LAMBDA v : contains(other_nbs, v))
        g3 == x_intersection(g2, intersection, 0, 1)
        g4 == x_other(g3, node_nbs, other, 0)
    IN  [g |-> g4, res |-> res, det |-> FALSE, rng |-> 1]

(* GraphSim::int_measure_y *)
RECURSIVE y_neighbours(_, _, _, _, _)
y_neighbours(g, node, gate, i, nlen) ==
  IF ~Ok(g) \/ i >= nlen THEN g
  ELSE IF i >= len(g, node) THEN Panic(g, IndexFault)
  ELSE y_neighbours(mul_right(g, g.nodes[node].adjacent[i + 1], gate),
                    node, gate, i + 1, nlen)

RECURSIVE y_toggle_row(_, _, _, _, _)
y_toggle_row(g, node, nval, j, nlen) ==
  (* for j in i+1..=nlen: oval is the node itself at j = nlen. *)
  IF ~Ok(g) \/ j > nlen THEN g
  ELSE IF j < nlen /\ j >= len(g, node) THEN Panic(g, IndexFault)
  ELSE LET oval == IF j = nlen THEN node ELSE g.nodes[node].adjacent[j + 1]
       IN  y_toggle_row(toggle_edge(g, nval, oval), node, nval, j + 1, nlen)

RECURSIVE y_toggle(_, _, _, _)
y_toggle(g, node, i, nlen) ==
  (* for i in 0..nlen: nval = self[node].adjacent[i], read once per i. *)
  IF ~Ok(g) \/ i >= nlen THEN g
  ELSE IF i >= len(g, node) THEN Panic(g, IndexFault)
  ELSE y_toggle(y_toggle_row(g, node, g.nodes[node].adjacent[i + 1], i + 1, nlen),
                node, i + 1, nlen)

int_measure_y(g, node, res) ==
  LET gate == IF res = PlusOne THEN S_GATE ELSE SDAG_GATE
      nlen == len(g, node)
      g1 == y_neighbours(g, node, gate, 0, nlen)
      g2 == y_toggle(g1, node, 0, nlen)
  IN  IF ~Ok(g2) THEN g2 ELSE mul_right(g2, node, gate)

(* GraphSim::int_measure_z *)
RECURSIVE z_loop(_, _, _, _, _)
z_loop(g, node, res, i, nlen) ==
  IF ~Ok(g) \/ i >= nlen THEN g
  ELSE IF i >= len(g, node) THEN Panic(g, IndexFault)
  ELSE LET other == g.nodes[node].adjacent[i + 1]
           g1 == delete_edge(g, node, other)
       IN  z_loop(IF res = MinusOne THEN mul_right(g1, other, Z_GATE) ELSE g1,
                  node, res, i + 1, nlen)

int_measure_z(g, node, res) ==
  LET g1 == z_loop(g, node, res, 0, len(g, node))
  IN  IF ~Ok(g1) THEN g1
      ELSE IF res = PlusOne THEN mul_right(g1, node, H_GATE)
      ELSE mul_right(mul_right(g1, node, X_GATE), node, H_GATE)

(* The axis measure dispatches on: CONJ_TABLE[axis][adj(vop)]. *)
measure_basis(g, node, axis) ==
  CONJ_TABLE[axis + 1][adj(g.nodes[node].vop) + 1]

(* GraphSim::measure; `res` is the value the random source would return. *)
measure(g, node, axis, res) ==
  IF ~Ok(g) \/ ~InRange(g, node)
  THEN [g |-> IF Ok(g) THEN Panic(g, IndexFault) ELSE g,
        res |-> res, det |-> FALSE, rng |-> 0]
  ELSE
    LET zeta == find_zeta(adj(g.nodes[node].vop), axis)
        basis == measure_basis(g, node, axis)
        r == CASE basis = Axis_X -> int_measure_x(g, node, res)
               [] basis = Axis_Y -> [g |-> int_measure_y(g, node, res),
                                     res |-> res, det |-> FALSE, rng |-> 1]
               [] basis = Axis_Z -> [g |-> int_measure_z(g, node, res),
                                     res |-> res, det |-> FALSE, rng |-> 1]
    IN  [r EXCEPT !.res = IF zeta = "Two" THEN flip(@) ELSE @]

(* measure_x asking for the Y axis. *)
measure_x_on_y_axis(g, qubit, res) == measure(g, qubit, Axis_Y, res)
measure_x(g, qubit, res) == measure(g, qubit, Axis_X, res)
measure_y(g, qubit, res) == measure(g, qubit, Axis_Y, res)
measure_z(g, qubit, res) == measure(g, qubit, Axis_Z, res)

(* GraphSim::get_entangled_group: breadth-first search over adjacency. *)
RECURSIVE group_visit(_, _, _, _)
group_visit(list, i, queue, part) ==
  (* for adj in &self[val].adjacent: returns <<queue, part>>. *)
  IF i > Len(list) THEN <<queue, part>>
  ELSE IF list[i] \notin part
       THEN group_visit(list, i + 1, Append(queue, list[i]), part \cup {list[i]})
       ELSE group_visit(list, i + 1, queue, part)

RECURSIVE group_loop(_, _, _)
group_loop(g, queue, part) ==
  IF queue = <<>> THEN part
  ELSE LET next == group_visit(g.nodes[Head(queue)].adjacent, 1, Tail(queue), part)
       IN  group_loop(g, next[1], next[2])

(* The number of values the while loop pops before the queue is empty. *)
RECURSIVE group_pops(_, _, _, _)
group_pops(g, queue, part, pops) ==
  IF queue = <<>> THEN pops
  ELSE LET next == group_visit(g.nodes[Head(queue)].adjacent, 1, Tail(queue), part)
       IN  group_pops(g, next[1], next[2], pops + 1)

(* The search stopping at the neighbours of `qubit`. *)
get_entangled_group_direct(g, qubit) ==
  group_visit(g.nodes[qubit].adjacent, 1, <<>>, {qubit})[2]

get_entangled_group(g, qubit) == group_loop(g, <<qubit>>, {qubit})

(* GraphSim::find_deterministic: Some(axis) for a node without neighbours. *)
find_deterministic_no_adjoint(g, node) ==
  IF g.nodes[node].adjacent = <<>>
  THEN [some |-> TRUE, axis |-> DETM_TABLE[g.nodes[node].vop + 1]]
  ELSE [some |-> FALSE, axis |-> -1]

find_deterministic(g, node) ==
  IF g.nodes[node].adjacent = <<>>
  THEN [some |-> TRUE, axis |-> DETM_TABLE[adj(g.nodes[node].vop) + 1]]
  ELSE [some |-> FALSE, axis |-> -1]

(* GraphSim::peek_measure_set.  `qubits` lists the set in the order the    *)
(* iteration visits it, axes[i] and draws[i] are what the random source    *)
(* gives at the i-th qubit.  The measurements act on `changeset`, a clone. *)
peek_axis(deterministic, drawn) ==
  IF deterministic.some THEN deterministic.axis ELSE drawn

peek_collect(out, idx, r, axis) ==
  IF Ok(r.g) THEN out \cup {<<idx, r.res, axis>>} ELSE out

RECURSIVE peek_loop(_, _, _, _, _, _)
peek_next(r, qubits, i, axes, draws, out, axis) ==
  peek_loop(r.g, qubits, i + 1, axes, draws,
            peek_collect(out, qubits[i], r, axis))

peek_measure(changeset, qubits, i, axes, draws, out, axis) ==
  peek_next(measure(changeset, qubits[i], axis, draws[i]),
            qubits, i, axes, draws, out, axis)

peek_loop(changeset, qubits, i, axes, draws, out) ==
  IF ~Ok(changeset) \/ i > Len(qubits)
  THEN [g |-> changeset, outcomes |-> out]
  ELSE IF ~InRange(changeset, qubits[i])
  THEN [g |-> Panic(changeset, IndexFault), outcomes |-> out]
  ELSE peek_measure(changeset, qubits, i, axes, draws, out,
                    peek_axis(find_deterministic(changeset, qubits[i]),
                              axes[i]))

(* What the call leaves of `self`: the clone is dropped, a panic is the    *)
(* caller's.                                                               *)
peek_result_changeset(g, r) ==
  [g |-> r.g, outcomes |-> IF Ok(r.g) THEN r.outcomes ELSE {}]

peek_result(g, r) ==
  [g |-> IF Ok(r.g) THEN g ELSE Panic(g, r.g.fault),
   outcomes |-> IF Ok(r.g) THEN r.outcomes ELSE {}]

peek_measure_set(g, qubits, axes, draws) ==
  peek_result(g, peek_loop(g, qubits, 1, axes, draws, {}))

(* The consultations of the random source by peek_measure_set: one entry   *)
(* per qubit the iteration reaches, with whether the qubit was isolated in *)
(* `changeset` then, the draws for the axis and the draws by measure.      *)
peek_axis_rng_always(deterministic) == 1

peek_axis_rng(deterministic) == IF deterministic.some THEN 0 ELSE 1

peek_rng_entry(changeset, idx, deterministic, r) ==
  [idx |-> idx, isolated |-> changeset.nodes[idx].adjacent = <<>>,
   axis |-> peek_axis_rng(deterministic), outcome |-> r.rng]

RECURSIVE peek_rng(_, _, _, _, _, _)
peek_rng_next(changeset, qubits, i, axes, draws, log, deterministic, r) ==
  peek_rng(r.g, qubits, i + 1, axes, draws,
           Append(log, peek_rng_entry(changeset, qubits[i], deterministic, r)))

peek_rng_measure(changeset, qubits, i, axes, draws, log, deterministic) ==
  peek_rng_next(changeset, qubits, i, axes, draws, log, deterministic,
                measure(changeset, qubits[i],
                        peek_axis(deterministic, axes[i]), draws[i]))

peek_rng(changeset, qubits, i, axes, draws, log) ==
  IF ~Ok(changeset) \/ i > Len(qubits) THEN log
  ELSE IF ~InRange(changeset, qubits[i]) THEN log
  ELSE peek_rng_measure(changeset, qubits, i, axes, draws, log,
                        find_deterministic(changeset, qubits[i]))

(***************************************************************************)
(* The state machine.  A run makes calls on one simulator: `nodes` and     *)
(* `fault` are the simulator, `last` describes the last call, `ops` counts *)
(* the calls, `results` lists the results the measurement calls returned.  *)
(* `script` fixes the calls of a scenario; a run with the empty script     *)
(* makes any calls.                                                        *)
(***************************************************************************)
VARIABLES nodes, fault, last, ops, results, script

vars == <<nodes, fault, last, ops, results, script>>

Sim == [nodes |-> nodes, fault |-> fault]
Qubits == DOMAIN nodes

NoCall ==
  [op |-> "new", a |-> -1, b |-> -1, res |-> "none", det |-> FALSE,
   basis |-> -1, ret |-> {}, qubits |-> {}, outcomes |-> {}]

Call(op, a, b) == [op |-> op, a |-> a, b |-> b]

NoScript == [name |-> "any", n |-> 0, calls |-> <<>>]

(* Runs whose calls may break the contract on arguments: an index that is  *)
(* out of range, a two-qubit gate with control = target.                   *)
MisuseScript == [name |-> "misuse", n |-> 0, calls |-> <<>>]

(* Runs that start from a graph on up to MaxVopN qubits with any VOPs.     *)
VopScript == [name |-> "vops", n |-> 0, calls |-> <<>>]

(* Runs that call the private methods on a simple graph on up to           *)
(* MaxInternalN qubits, one of which has any VOP.                          *)
InternalScript == [name |-> "internal", n |-> 0, calls |-> <<>>]

(* new(4); h on every qubit; cz along the line; the group of 0; measure_z  *)
(* of qubit m; the groups of 0 and of 2.                                   *)
ClusterScript(m) ==
  [name |-> "cluster", n |-> 4,
   calls |-> <<Call("h", 0, -1), Call("h", 1, -1), Call("h", 2, -1),
               Call("h", 3, -1), Call("cz", 0, 1), Call("cz", 1, 2),
               Call("cz", 2, 3), Call("get_entangled_group", 0, -1),
               Call("measure_z", m, -1),
               Call("get_entangled_group", 0, -1),
               Call("get_entangled_group", 2, -1)>>]

(* new(3); h(0); cz(0,1); cz(0,2); measure_z of the three qubits in the    *)
(* order p.                                                                *)
GhzScript(p) ==
  [name |-> "ghz", n |-> 3,
   calls |-> <<Call("h", 0, -1), Call("cz", 0, 1), Call("cz", 0, 2),
               Call("measure_z", p[1], -1), Call("measure_z", p[2], -1),
               Call("measure_z", p[3], -1)>>]

(* new(2); h(0); cz(0,1); h(1); measure_z of the two qubits in the order p. *)
CorrelationScript(p) ==
  [name |-> "correlation", n |-> 2,
   calls |-> <<Call("h", 0, -1), Call("cz", 0, 1), Call("h", 1, -1),
               Call("measure_z", p[1], -1), Call("measure_z", p[2], -1)>>]

(* new(1); h(0); measure_x(0); measure_z(0). *)
PlusScript ==
  [name |-> "plus", n |-> 1,
   calls |-> <<Call("h", 0, -1), Call("measure_x", 0, -1),
               Call("measure_z", 0, -1)>>]

Orders(n) ==
  {p \in [1 .. n -> 0 .. (n - 1)] : \A i, j \in 1 .. n : i # j => p[i] # p[j]}

Scripts ==
  {ClusterScript(m) : m \in 0 .. 3}
    \cup {GhzScript(p) : p \in Orders(3)}
    \cup {CorrelationScript(p) : p \in Orders(2)}
    \cup {PlusScript}

Init ==
  /\ \E n \in 1 .. MaxN : nodes = new(n)
  /\ fault = NoFault
  /\ last = NoCall
  /\ ops = 0
  /\ results = <<>>
  /\ script = NoScript

InitScenario ==
  /\ script \in Scripts
  /\ nodes = new(script.n)
  /\ fault = NoFault
  /\ last = NoCall
  /\ ops = 0
  /\ results = <<>>

InitMisuse ==
  /\ script = MisuseScript
  /\ \E n \in 1 .. MaxN : nodes = new(n)
  /\ fault = NoFault
  /\ last = NoCall
  /\ ops = 0
  /\ results = <<>>

RECURSIVE ascending(_)
ascending(S) ==
  IF S = {} THEN <<>>
  ELSE LET m == CHOOSE e \in S : \A o \in S : e <= o
       IN  <<m>> \o ascending(S \ {m})

Graphs(n) == SUBSET {e \in (0 .. n - 1) \X (0 .. n - 1) : e[1] < e[2]}

(* The simulator with the edges of `graph` and the VOPs `vops`. *)
with_graph(n, graph, vops) ==
  [q \in 0 .. n - 1 |->
     [adjacent |-> ascending({o \in 0 .. n - 1 :
                                <<q, o>> \in graph \/ <<o, q>> \in graph}),
      vop |-> vops[q]]]

InitVops ==
  /\ script = VopScript
  /\ \E n \in 1 .. MaxVopN :
       \E graph \in Graphs(n), vops \in [0 .. n - 1 -> Vops] :
         nodes = with_graph(n, graph, vops)
  /\ fault = NoFault
  /\ last = NoCall
  /\ ops = 0
  /\ results = <<>>

InitInternal ==
  /\ script = InternalScript
  /\ \E n \in 1 .. MaxInternalN :
       \E graph \in Graphs(n), q \in 0 .. n - 1, v \in Vops :
         nodes = with_graph(n, graph,
                            [u \in 0 .. n - 1 |-> IF u = q THEN v ELSE YC])
  /\ fault = NoFault
  /\ last = NoCall
  /\ ops = 0
  /\ results = <<>>

Depth ==
  CASE script = VopScript -> MaxVopOps
    [] script = InternalScript -> MaxInternalOps
    [] script \in {NoScript, MisuseScript} -> MaxOps
    [] OTHER -> Len(script.calls)

(* A call is made on a simulator that has not panicked; a scenario makes   *)
(* the next call of its script.                                            *)
CanCall ==
  /\ fault = NoFault
  /\ ops < Depth

Allowed(op, a, b) ==
  IF script.calls = <<>> THEN TRUE ELSE script.calls[ops + 1] = Call(op, a, b)

(* The indices a call is made with. *)
Args == IF script = MisuseScript THEN 0 .. MaxN ELSE Qubits

Returns(g, call) ==
  /\ nodes' = g.nodes
  /\ fault' = g.fault
  /\ last' = call
  /\ ops' = ops + 1
  /\ results' = IF call.res \in MeasurementResults
                THEN Append(results, call.res) ELSE results
  /\ UNCHANGED script

Gate1(name, g, qubit) ==
  /\ Allowed(name, qubit, -1)
  /\ Returns(g, [NoCall EXCEPT !.op = name, !.a = qubit])

Gate2(name, g, control, target) ==
  /\ Allowed(name, control, target)
  /\ Returns(g, [NoCall EXCEPT !.op = name, !.a = control, !.b = target])

Call_x == CanCall /\ \E q \in Args : Gate1("x", x(Sim, q), q)
Call_y == CanCall /\ \E q \in Args : Gate1("y", y(Sim, q), q)
Call_z == CanCall /\ \E q \in Args : Gate1("z", z(Sim, q), q)
Call_h == CanCall /\ \E q \in Args : Gate1("h", h(Sim, q), q)
Call_s == CanCall /\ \E q \in Args : Gate1("s", s(Sim, q), q)
Call_sdag == CanCall /\ \E q \in Args : Gate1("sdag", sdag(Sim, q), q)

Pairs == {p \in Args \X Args : script = MisuseScript \/ p[1] # p[2]}

Call_cz == CanCall /\ \E p \in Pairs : Gate2("cz", cz(Sim, p[1], p[2]), p[1], p[2])
Call_cx == CanCall /\ \E p \in Pairs : Gate2("cx", cx(Sim, p[1], p[2]), p[1], p[2])
Call_cy == CanCall /\ \E p \in Pairs : Gate2("cy", cy(Sim, p[1], p[2]), p[1], p[2])
Call_xcx == CanCall /\ \E p \in Pairs : Gate2("xcx", xcx(Sim, p[1], p[2]), p[1], p[2])
Call_ycx == CanCall /\ \E p \in Pairs : Gate2("ycx", ycx(Sim, p[1], p[2]), p[1], p[2])
Call_xcz == CanCall /\ \E p \in Pairs : Gate2("xcz", xcz(Sim, p[1], p[2]), p[1], p[2])
Call_ycz == CanCall /\ \E p \in Pairs : Gate2("ycz", ycz(Sim, p[1], p[2]), p[1], p[2])
Call_xcy == CanCall /\ \E p \in Pairs : Gate2("xcy", xcy(Sim, p[1], p[2]), p[1], p[2])
Call_ycy == CanCall /\ \E p \in Pairs : Gate2("ycy", ycy(Sim, p[1], p[2]), p[1], p[2])

Measured(name, r, qubit, axis) ==
  /\ Allowed(name, qubit, -1)
  /\ Returns(r.g, [NoCall EXCEPT !.op = name, !.a = qubit,
                                 !.res = IF Ok(r.g) THEN r.res ELSE "none",
                                 !.det = r.det,
                                 !.basis = IF InRange(Sim, qubit)
                                           THEN measure_basis(Sim, qubit, axis)
                                           ELSE -1])

Call_measure_x ==
  CanCall /\ \E q \in Args, res \in MeasurementResults :
               Measured("measure_x", measure_x(Sim, q, res), q, Axis_X)
Call_measure_y ==
  CanCall /\ \E q \in Args, res \in MeasurementResults :
               Measured("measure_y", measure_y(Sim, q, res), q, Axis_Y)
Call_measure_z ==
  CanCall /\ \E q \in Args, res \in MeasurementResults :
               Measured("measure_z", measure_z(Sim, q, res), q, Axis_Z)

Call_get_entangled_group ==
  CanCall /\ \E q \in Args :
    /\ Allowed("get_entangled_group", q, -1)
    /\ IF InRange(Sim, q)
       THEN Returns(Sim, [NoCall EXCEPT !.op = "get_entangled_group", !.a = q,
                                        !.ret = get_entangled_group(Sim, q)])
       ELSE Returns(Panic(Sim, IndexFault),
                    [NoCall EXCEPT !.op = "get_entangled_group", !.a = q])

(* The sets of at most MaxPeek qubits, each in every iteration order. *)
PeekOrders ==
  {qubits \in UNION {[1 .. k -> Args] : k \in 0 .. MaxPeek} :
     \A i, j \in DOMAIN qubits : i # j => qubits[i] # qubits[j]}

Peeked(r, qubits) ==
  /\ Allowed("peek_measure_set", -1, -1)
  /\ Returns(r.g, [NoCall EXCEPT !.op = "peek_measure_set",
                                 !.qubits = {qubits[i] : i \in DOMAIN qubits},
                                 !.outcomes = r.outcomes])

Call_peek_measure_set ==
  CanCall /\ \E qubits \in PeekOrders :
    \E axes \in [DOMAIN qubits -> Axes],
       draws \in [DOMAIN qubits -> MeasurementResults] :
      Peeked(peek_measure_set(Sim, qubits, axes, draws), qubits)

Next ==
  \/ Call_x \/ Call_y \/ Call_z \/ Call_h \/ Call_s \/ Call_sdag
  \/ Call_cz \/ Call_cx \/ Call_cy
  \/ Call_xcx \/ Call_ycx \/ Call_xcz \/ Call_ycz \/ Call_xcy \/ Call_ycy
  \/ Call_measure_x \/ Call_measure_y \/ Call_measure_z
  \/ Call_get_entangled_group \/ Call_peek_measure_set

Spec == Init /\ [][Next]_vars

(* The scenarios call h, cz, measure_x, measure_z and get_entangled_group  *)
(* only.                                                                   *)
NextScenario ==
  \/ Call_h \/ Call_cz \/ Call_measure_x \/ Call_measure_z
  \/ Call_get_entangled_group

SpecScenario == InitScenario /\ [][NextScenario]_vars

SpecMisuse == InitMisuse /\ [][Next]_vars

SpecVops == InitVops /\ [][Next]_vars

(* The private methods, called on their own. *)
Call_remove_vop ==
  CanCall /\ \E p \in Pairs :
    Gate2("remove_vop", remove_vop(Sim, p[1], p[2]), p[1], p[2])

Call_toggle_edge ==
  CanCall /\ \E p \in Pairs :
    Gate2("toggle_edge", toggle_edge(Sim, p[1], p[2]), p[1], p[2])

Call_local_comp ==
  CanCall /\ \E q \in Args : Gate1("local_comp", local_comp(Sim, q), q)

Measured_x(r, node) ==
  Returns(r.g, [NoCall EXCEPT !.op = "int_measure_x", !.a = node,
                              !.res = r.res, !.det = r.det])

Call_int_measure_x ==
  CanCall /\ \E q \in Args, res \in MeasurementResults :
    Measured_x(int_measure_x(Sim, q, res), q)

NextInternal ==
  \/ Call_remove_vop \/ Call_toggle_edge \/ Call_local_comp
  \/ Call_int_measure_x

SpecInternal == InitInternal /\ [][NextInternal]_vars

(***************************************************************************)
(* Properties of the adjacency lists.                                      *)
(***************************************************************************)
NoDuplicates(ns) ==
  \A u \in DOMAIN ns :
    \A i, j \in 1 .. Len(ns[u].adjacent) :
      i # j => ns[u].adjacent[i] # ns[u].adjacent[j]

Symmetric(ns) ==
  \A u, v \in DOMAIN ns :
    contains(ns[u].adjacent, v) <=> contains(ns[v].adjacent, u)

Closed(ns) ==
  \A u \in DOMAIN ns :
    \A i \in 1 .. Len(ns[u].adjacent) :
      ns[u].adjacent[i] \in DOMAIN ns /\ ns[u].adjacent[i] # u

(* The graph is simple: what the data model asks of every state. *)
Simple(ns) == NoDuplicates(ns) /\ Symmetric(ns) /\ Closed(ns)

Neighbours(ns, u) == {ns[u].adjacent[i] : i \in 1 .. Len(ns[u].adjacent)}

MeasureOps == {"measure_x", "measure_y", "measure_z"}

(* C1: after every call that returned, no adjacency list holds the same    *)
(* index twice (cz's edge update is idempotent).                           *)
C1_NoDuplicates == fault = NoFault => NoDuplicates(nodes)

(* C2: every public operation called with legal arguments on a reachable   *)
(* simulator completes without a fault; stated for the calls made on a     *)
(* simple graph.                                                           *)
C2_Totality == [][Simple(nodes) => fault' = NoFault]_vars

(* C3: after every call that returned, v is in adj(u) exactly when u is in *)
(* adj(v).                                                                 *)
C3_SymmetricAdjacency == fault = NoFault => Symmetric(nodes)

C3_Witness ==
  /\ fault = NoFault
  /\ ops = MaxOps
  /\ last.op \in MeasureOps \cup {"cz", "ycy"}
  /\ \E u, v \in Qubits :
       contains(nodes[u].adjacent, v) /\ contains(nodes[v].adjacent, u)

(* C4: after every call that returned, every entry v of adj(u) is a node   *)
(* index other than u.                                                     *)
C4_NoSelfLoopsClosure == fault = NoFault => Closed(nodes)

(***************************************************************************)
(* The measurement rewrites.  `pre` and `post` are the nodes before and    *)
(* after a measurement of q, `sampled` the value the random source gave    *)
(* (measure returns it flipped when zeta is Two).                          *)
(***************************************************************************)
AxisOf(op) ==
  CASE op = "measure_x" -> Axis_X
    [] op = "measure_y" -> Axis_Y
    [] op = "measure_z" -> Axis_Z

Sampled(pre, call) ==
  IF find_zeta(adj(pre[call.a].vop), AxisOf(call.op)) = "Two"
  THEN flip(call.res) ELSE call.res

Edge(ns, u, v) == contains(ns[u].adjacent, v)

Z_Post(pre, post, q, sampled) ==
  LET former == Neighbours(pre, q)
  IN  /\ post[q].adjacent = <<>>
      /\ \A v \in former :
           /\ ~contains(post[v].adjacent, q)
           /\ post[v].adjacent = retain(pre[v].adjacent, q)
           /\ post[v].vop = IF sampled = MinusOne
                            THEN mul(pre[v].vop, Z_GATE) ELSE pre[v].vop
      /\ post[q].vop = IF sampled = PlusOne
                       THEN mul(pre[q].vop, H_GATE)
                       ELSE mul(mul(pre[q].vop, X_GATE), H_GATE)
      /\ \A w \in DOMAIN pre \ (former \cup {q}) : post[w] = pre[w]

Y_Post(pre, post, q, sampled) ==
  LET former == Neighbours(pre, q)
      closed == former \cup {q}
      gate == IF sampled = PlusOne THEN S_GATE ELSE SDAG_GATE
  IN  /\ \A v \in closed : post[v].vop = mul(pre[v].vop, gate)
      /\ \A w \in DOMAIN pre \ closed : post[w].vop = pre[w].vop
      /\ NoDuplicates(post)
      /\ \A u, v \in DOMAIN pre :
           u # v => (Edge(post, u, v) <=>
                       IF u \in closed /\ v \in closed
                       THEN ~Edge(pre, u, v) ELSE Edge(pre, u, v))

(* C5: a measurement that dispatches to int_measure_z on a node of a       *)
(* simple graph, with any number of neighbours, completes; it removes all  *)
(* the node's edges, multiplies every former neighbour's VOP by Z when the *)
(* sampled result is -1, sets the node's VOP to vop*H or vop*X*H, and      *)
(* changes nothing else.                                                   *)
C5_MeasureZRewrite ==
  [][(last'.op \in MeasureOps /\ last'.basis = Axis_Z /\ Simple(nodes))
       => (fault' = NoFault
           /\ Z_Post(nodes, nodes', last'.a, Sampled(nodes, last')))]_vars

(* C6: a measurement that dispatches to int_measure_y on a node of a       *)
(* simple graph, with any number of neighbours, completes; it multiplies   *)
(* the VOP of the node and of every neighbour by S (+1) or S-dagger (-1)   *)
(* once and toggles the edge of every pair of {node} union adj(node) once. *)
C6_MeasureYRewrite ==
  [][(last'.op \in MeasureOps /\ last'.basis = Axis_Y /\ Simple(nodes))
       => (fault' = NoFault
           /\ Y_Post(nodes, nodes', last'.a, Sampled(nodes, last')))]_vars

(* C7: in the line cluster scenario the group of 0 is {0,1,2,3}; then      *)
(* measure_z(1) returns, and afterwards the group of 0 is {0} and the      *)
(* group of 2 is {2,3}.                                                    *)
C7_LineCluster ==
  script = ClusterScript(1) =>
    /\ ops = 8 => last.ret = {0, 1, 2, 3}
    /\ ops = 9 => fault = NoFault
    /\ ops = 10 => last.ret = {0}
    /\ ops = 11 => last.ret = {2, 3}

(* C8 as stated: in the scenario new(3); h(0); cz(0,1); cz(0,2), the       *)
(* measure_z of qubit 1 and of qubit 2 return what measure_z(0) returned.  *)
C8_GhzAllEqual ==
  script = GhzScript(<<0, 1, 2>>) =>
    \A i \in 1 .. Len(results) : results[i] = results[1]

(* C8 as amended: in that scenario every call returns, measure_z(0) can    *)
(* return either value, and measure_z(1) and measure_z(2) return +1        *)
(* whatever measure_z(0) returned.                                         *)
C8_GhzOthersPlusOne ==
  script = GhzScript(<<0, 1, 2>>) =>
    /\ fault = NoFault
    /\ ops = 3 => {measure_z(Sim, 0, res).res : res \in MeasurementResults}
                    = MeasurementResults
    /\ \A i \in 2 .. Len(results) : results[i] = PlusOne

C8_Witness ==
  /\ script = GhzScript(<<0, 1, 2>>)
  /\ results = <<MinusOne, PlusOne, PlusOne>>

(* C9 as stated: in the scenario new(2); h(0); cz(0,1); h(1), the          *)
(* measure_z of qubit 0 and then of qubit 1 return equal results.          *)
C9_CorrelationEqual ==
  (script = CorrelationScript(<<0, 1>>) /\ Len(results) = 2)
    => results[1] = results[2]

(* C9 as amended: in that scenario every call returns and each of the two  *)
(* measurements can return +1 and can return -1, whatever the other one    *)
(* returned, so all four outcome pairs are reachable.                      *)
C9_CorrelationIndependent ==
  script = CorrelationScript(<<0, 1>>) =>
    /\ fault = NoFault
    /\ ops \in {3, 4} =>
         {measure_z(Sim, ops - 3, res).res : res \in MeasurementResults}
           = MeasurementResults

C9_Witness ==
  /\ script = CorrelationScript(<<0, 1>>)
  /\ results = <<PlusOne, MinusOne>>

(* C10: measure_z of a qubit that is as new(n) made it returns +1, reports *)
(* deterministic = true and leaves the simulator unchanged.                *)
C10_FreshMeasureZ ==
  [][(last'.op = "measure_z" /\ nodes[last'.a] = DefaultNode)
       => (fault' = NoFault /\ last'.res = PlusOne /\ last'.det
           /\ nodes' = nodes)]_vars

C10_Witness ==
  /\ last.op = "measure_z" /\ last.res = PlusOne /\ last.det
  /\ fault = NoFault
  /\ nodes[last.a] = DefaultNode
  /\ \E u \in Qubits : nodes[u].adjacent # <<>>

(* C11: in the scenario new(1); h(0), measure_x(0) returns +1 (on the      *)
(* deterministic path) in every execution, and the measure_z(0) that       *)
(* follows can return +1 and can return -1.                                *)
C11_PlusStateX ==
  script = PlusScript =>
    /\ fault = NoFault
    /\ ops = 2 => (last.op = "measure_x" /\ last.res = PlusOne /\ last.det)
    /\ ops = 2 => {measure_z(Sim, 0, res).res : res \in MeasurementResults}
                    = MeasurementResults

C11_Witness ==
  /\ script = PlusScript
  /\ ops = 3
  /\ last.op = "measure_z"
  /\ results = <<PlusOne, MinusOne>>

(***************************************************************************)
(* Relations between calls, stated on the values the operators return.     *)
(***************************************************************************)
SameState(g1, g2) ==
  /\ g1.fault = g2.fault
  /\ \A u \in DOMAIN g1.nodes :
       /\ Neighbours(g1.nodes, u) = Neighbours(g2.nodes, u)
       /\ g1.nodes[u].vop = g2.nodes[u].vop

(* C12: from every state a run reaches, for distinct a and b, cz(a, b)     *)
(* and cz(b, a) leave every node with the same adjacency set and the same  *)
(* VOP.                                                                    *)
C12_CzSymmetry ==
  fault = NoFault =>
    \A p \in Pairs : SameState(cz(Sim, p[1], p[2]), cz(Sim, p[2], p[1]))

(* C13: from every state a run reaches, for distinct a and b, cz(a, b)     *)
(* applied twice gives back the state before the first call.               *)
C13_CzSelfInverse ==
  fault = NoFault =>
    \A p \in Pairs : cz(cz(Sim, p[1], p[2]), p[1], p[2]) = Sim

(* C14: for every qubit q of every graph with any of the 24 VOPs on q,     *)
(* each of h;h, x;x, y;y, z;z and s;sdag on q gives back exactly the VOPs  *)
(* and the adjacency before the sequence.                                  *)
C14_GateInvolution ==
  fault = NoFault =>
    \A q \in Qubits :
      /\ h(h(Sim, q), q) = Sim
      /\ x(x(Sim, q), q) = Sim
      /\ y(y(Sim, q), q) = Sim
      /\ z(z(Sim, q), q) = Sim
      /\ sdag(s(Sim, q), q) = Sim

C14_Witness ==
  /\ script = VopScript
  /\ fault = NoFault
  /\ last.op = "sdag"
  /\ nodes[last.a].vop = ZF
  /\ nodes[last.a].adjacent # <<>>

GateOps == {"x", "y", "z", "h", "s", "sdag"}

(* C15: the composition table is associative and IA is its identity: for   *)
(* the VOP a a gate has just left on a qubit, which takes every one of the *)
(* 24 values, and all VOPs b and c, mul(a, mul(b, c)) = mul(mul(a, b), c)  *)
(* and mul(IA, a) = mul(a, IA) = a.                                        *)
C15_VopGroup ==
  (script = VopScript /\ last.op \in GateOps) =>
    \A b, c \in Vops :
      /\ mul(nodes[last.a].vop, mul(b, c)) = mul(mul(nodes[last.a].vop, b), c)
      /\ mul(IA, nodes[last.a].vop) = nodes[last.a].vop
      /\ mul(nodes[last.a].vop, IA) = nodes[last.a].vop
      /\ mul(IA, b) = b /\ mul(b, IA) = b

C15_Witness ==
  /\ script = VopScript
  /\ last.op = "s"
  /\ nodes[last.a].vop = ZF
  /\ mul(ZF, mul(YB, YC)) = mul(mul(ZF, YB), YC)
  /\ mul(YB, YC) # mul(YC, YB)

(* C16: for the VOP a of every qubit, adj(a) is the two-sided inverse of a *)
(* and adj(adj(a)) = a.                                                    *)
C16_Adjoint ==
  \A q \in Qubits :
    /\ mul(nodes[q].vop, adj(nodes[q].vop)) = IA
    /\ mul(adj(nodes[q].vop), nodes[q].vop) = IA
    /\ adj(adj(nodes[q].vop)) = nodes[q].vop

C16_Witness ==
  /\ script = VopScript
  /\ last.op \in MeasureOps
  /\ fault = NoFault
  /\ adj(nodes[last.a].vop) # nodes[last.a].vop
  /\ mul(nodes[last.a].vop, adj(nodes[last.a].vop)) = IA

(* C17: a peek_measure_set call that returns leaves every node's adjacency *)
(* and VOP as they were, whatever axes and outcomes were drawn.            *)
C17_PeekNonDisturbance ==
  [][(last'.op = "peek_measure_set" /\ fault' = NoFault)
       => nodes' = nodes]_vars

C17_Witness ==
  /\ last.op = "peek_measure_set"
  /\ fault = NoFault
  /\ Cardinality(last.outcomes) = MaxPeek
  /\ \E o \in last.outcomes :
       /\ nodes[o[1]].adjacent # <<>>
       /\ o[2] = MinusOne

(* C18: find_deterministic gives an axis exactly for the nodes without     *)
(* neighbours; measuring such a node, whatever its VOP, on that axis takes *)
(* int_measure_x's path for an isolated node (deterministic, no random     *)
(* draw, nothing written), and peek_measure_set of that one qubit returns  *)
(* the same (result, axis) whatever the random source gives.               *)
C18_DeterministicAxis ==
  fault = NoFault =>
    \A q \in Qubits :
      /\ find_deterministic(Sim, q).some <=> nodes[q].adjacent = <<>>
      /\ find_deterministic(Sim, q).some =>
           /\ measure_basis(Sim, q, find_deterministic(Sim, q).axis) = Axis_X
           /\ \A res \in MeasurementResults :
                /\ measure(Sim, q, find_deterministic(Sim, q).axis, res).det
                /\ measure(Sim, q, find_deterministic(Sim, q).axis, res).rng = 0
                /\ measure(Sim, q, find_deterministic(Sim, q).axis, res).g = Sim
           /\ Cardinality({peek_measure_set(Sim, <<q>>, axes, draws).outcomes :
                             axes \in [{1} -> Axes],
                             draws \in [{1} -> MeasurementResults]}) = 1

C18_Witness ==
  /\ script = VopScript
  /\ last.op = "peek_measure_set"
  /\ fault = NoFault
  /\ \E o \in last.outcomes :
       /\ nodes[o[1]].adjacent = <<>>
       /\ o[2] = MinusOne
       /\ o[3] = Axis_Y
       /\ find_deterministic(Sim, o[1]).axis = Axis_Y

TwoQubitOps ==
  {"cz", "cx", "cy", "xcx", "ycx", "xcz", "ycz", "xcy", "ycy"}

(* C19: a two-qubit gate called with control = target (in range) faults    *)
(* instead of returning, and no state with c in adj(c) is produced.        *)
C19_SelfTargetRejected ==
  [][(last'.op \in TwoQubitOps /\ last'.a = last'.b /\ last'.a \in Qubits)
       => (fault' # NoFault
           /\ ~contains(nodes'[last'.a].adjacent, last'.a))]_vars

OutOfRange(call) ==
  \/ call.op \in GateOps \cup MeasureOps \cup {"get_entangled_group"}
       /\ call.a \notin Qubits
  \/ call.op \in TwoQubitOps /\ (call.a \notin Qubits \/ call.b \notin Qubits)
  \/ call.op = "peek_measure_set" /\ ~(call.qubits \subseteq Qubits)

(* C20: every public operation called with an index >= n (either argument  *)
(* of a two-qubit gate) faults, and at the fault no node's VOP or          *)
(* adjacency has been modified by the call.                                *)
C20_OutOfRangeFaults ==
  [][OutOfRange(last') => (fault' = IndexFault /\ nodes' = nodes)]_vars

(***************************************************************************)
(* The connected component of q: the least set that holds q and every      *)
(* entry of the adjacency list of each of its members.                     *)
(***************************************************************************)
RECURSIVE Closure(_, _)
Closure(ns, S) ==
  LET T == S \cup UNION {Neighbours(ns, u) : u \in S}
  IN  IF T = S THEN S ELSE Closure(ns, T)

Component(ns, q) == Closure(ns, {q})

(* C21: in every state, for every qubit q, get_entangled_group(q) is the   *)
(* connected component of q (q itself, every node reachable from q along   *)
(* adjacency entries, nothing else), and the search ends after popping     *)
(* each member of the component once.                                      *)
C21_EntangledGroup ==
  \A q \in Qubits :
    /\ get_entangled_group(Sim, q) = Component(nodes, q)
    /\ q \in get_entangled_group(Sim, q)
    /\ group_pops(Sim, <<q>>, {q}, 0) = Cardinality(Component(nodes, q))

C21_Witness ==
  /\ last.op = "get_entangled_group"
  /\ fault = NoFault
  /\ last.ret = Qubits
  /\ Cardinality(last.ret) = 3
  /\ \E v \in last.ret : v # last.a /\ ~contains(nodes[last.a].adjacent, v)

(* C22: new(n) makes exactly the nodes 0 .. n-1, each with an empty        *)
(* adjacency list and the VOP YC, whose get_state_str is "0"; a run starts *)
(* from such a simulator, and no call, returning or panicking, changes the *)
(* number of nodes.                                                        *)
C22_FixedSize ==
  /\ [](\A n \in 0 .. MaxN :
          /\ DOMAIN new(n) = 0 .. (n - 1)
          /\ Cardinality(DOMAIN new(n)) = n
          /\ \A i \in DOMAIN new(n) :
               /\ new(n)[i].adjacent = <<>>
               /\ new(n)[i].vop = YC
               /\ get_state_str(new(n)[i].vop) = "0")
  /\ [](ops = 0 => nodes = new(Cardinality(DOMAIN nodes)))
  /\ [][DOMAIN nodes' = DOMAIN nodes]_vars

C22_Witness ==
  /\ ops = MaxOps
  /\ Cardinality(DOMAIN nodes) = MaxN
  /\ last.op \in MeasureOps
  /\ fault = NoFault
  /\ \E q \in Qubits : Len(nodes[q].adjacent) = 2 /\ nodes[q].vop # YC

(* The generator the spec names for each single-qubit gate. *)
Generator(op) ==
  CASE op = "x" -> XA
    [] op = "y" -> YA
    [] op = "z" -> ZA
    [] op = "h" -> YC
    [] op = "s" -> YB
    [] op = "sdag" -> XB

(* C23: each of x, y, z, h, s, sdag on a qubit q returns, sets vop(q) to   *)
(* mul(G, vop(q)) with G = XA, YA, ZA, YC, YB, XB (the generator on the    *)
(* left), and leaves every adjacency list and every other VOP unchanged.   *)
C23_SingleQubitGate ==
  [][last'.op \in GateOps =>
       /\ fault' = NoFault
       /\ nodes'[last'.a].vop = mul(Generator(last'.op), nodes[last'.a].vop)
       /\ \A u \in Qubits :
            /\ nodes'[u].adjacent = nodes[u].adjacent
            /\ u # last'.a => nodes'[u].vop = nodes[u].vop]_vars

C23_Witness ==
  /\ script = VopScript
  /\ last.op = "s"
  /\ fault = NoFault
  /\ Cardinality(Qubits) = MaxVopN
  /\ nodes[last.a].adjacent # <<>>
  /\ mul(mul(XB, nodes[last.a].vop), YB) # nodes[last.a].vop

(***************************************************************************)
(* A reference stabilizer simulation.  A Pauli string is i^k times, on     *)
(* every qubit u, X^x[u] Z^z[u]; a stabilizer state is the group of the    *)
(* 2^n strings that fix it.  Gates act on a string by conjugation.         *)
(***************************************************************************)
RECURSIVE Sum(_, _)
Sum(f, S) ==
  IF S = {} THEN 0
  ELSE LET u == CHOOSE e \in S : TRUE IN f[u] + Sum(f, S \ {u})

Pauli1(k, xbit, zbit) == [k |-> k, x |-> xbit, z |-> zbit]

AxisPauli(axis) ==
  CASE axis = Axis_X -> Pauli1(0, 1, 0)
    [] axis = Axis_Y -> Pauli1(1, 1, 1)
    [] axis = Axis_Z -> Pauli1(0, 0, 1)

(* H: X -> Z, Z -> X.  S: X -> Y, Z -> Z.  S-dagger: X -> -Y, Z -> Z.      *)
(* A Pauli gate changes the sign of the strings it anticommutes with.      *)
RefH1(p) == Pauli1((p.k + 2 * p.x * p.z) % 4, p.z, p.x)
RefS1(p) == Pauli1((p.k + p.x) % 4, p.x, (p.x + p.z) % 2)
RefSdag1(p) == Pauli1((p.k + 3 * p.x) % 4, p.x, (p.x + p.z) % 2)
RefX1(p) == Pauli1((p.k + 2 * p.z) % 4, p.x, p.z)
RefY1(p) == Pauli1((p.k + 2 * (p.x + p.z)) % 4, p.x, p.z)
RefZ1(p) == Pauli1((p.k + 2 * p.x) % 4, p.x, p.z)

Ref1(op, p) ==
  CASE op = "h" -> RefH1(p)
    [] op = "s" -> RefS1(p)
    [] op = "sdag" -> RefSdag1(p)
    [] op = "x" -> RefX1(p)
    [] op = "y" -> RefY1(p)
    [] op = "z" -> RefZ1(p)

(* The Clifford operator a VOP label stands for: h multiplies by YC and s  *)
(* by YB, so a label is the product of a word over H and S.                *)
Letters == {"H", "S"}
MaxWord == 6
Words == UNION {[1 .. k -> Letters] : k \in 0 .. MaxWord}

RECURSIVE WordVop(_)
WordVop(w) ==
  IF w = <<>> THEN IA
  ELSE mul(IF Head(w) = "H" THEN YC ELSE YB, WordVop(Tail(w)))

RECURSIVE WordAct(_, _)
WordAct(w, p) ==
  IF w = <<>> THEN p
  ELSE Ref1(IF Head(w) = "H" THEN "h" ELSE "s", WordAct(Tail(w), p))

VopWord == [v \in Vops |-> CHOOSE w \in Words : WordVop(w) = v]

(* VopAction[v][P] is v P v-dagger. *)
VopAction == [v \in Vops |-> [P \in Axes |-> WordAct(VopWord[v], AxisPauli(P))]]

(* The generator of node a: X on a and Z on its neighbours, each carried   *)
(* through the VOP of its node.  Adjacency lists are read as sets.         *)
Factor(ns, a, b) ==
  IF b = a THEN VopAction[ns[b].vop][Axis_X]
  ELSE IF b \in Neighbours(ns, a) THEN VopAction[ns[b].vop][Axis_Z]
  ELSE Pauli1(0, 0, 0)

StabGenerator(ns, a) ==
  [k |-> Sum([b \in DOMAIN ns |-> Factor(ns, a, b).k], DOMAIN ns) % 4,
   x |-> [b \in DOMAIN ns |-> Factor(ns, a, b).x],
   z |-> [b \in DOMAIN ns |-> Factor(ns, a, b).z]]

PauliMul(p, q) ==
  [k |-> (p.k + q.k + 2 * Sum([u \in DOMAIN p.x |-> p.z[u] * q.x[u]],
                              DOMAIN p.x)) % 4,
   x |-> [u \in DOMAIN p.x |-> (p.x[u] + q.x[u]) % 2],
   z |-> [u \in DOMAIN p.x |-> (p.z[u] + q.z[u]) % 2]]

PauliIdentity(Q) == [k |-> 0, x |-> [u \in Q |-> 0], z |-> [u \in Q |-> 0]]

RECURSIVE GeneratorProduct(_, _)
GeneratorProduct(ns, T) ==
  IF T = {} THEN PauliIdentity(DOMAIN ns)
  ELSE LET a == CHOOSE e \in T : \A o \in T : e <= o
       IN  PauliMul(StabGenerator(ns, a), GeneratorProduct(ns, T \ {a}))

(* The stabilizer group the pair (graph, VOP labelling) encodes. *)
Stabilizers(ns) == {GeneratorProduct(ns, T) : T \in SUBSET DOMAIN ns}

(* The stabilizer group of |0...0>: the products of the Z's. *)
ZeroState(Q) == {[k |-> 0, x |-> [u \in Q |-> 0], z |-> zs] : zs \in [Q -> {0, 1}]}

RefOn(op, q, p) ==
  [k |-> (p.k + Ref1(op, Pauli1(0, p.x[q], p.z[q])).k) % 4,
   x |-> [p.x EXCEPT ![q] = Ref1(op, Pauli1(0, p.x[q], p.z[q])).x],
   z |-> [p.z EXCEPT ![q] = Ref1(op, Pauli1(0, p.x[q], p.z[q])).z]]

(* CZ: X_a -> X_a Z_b, X_b -> Z_a X_b, Z -> Z. *)
RefCZ(a, b, p) ==
  [k |-> (p.k + 2 * p.x[a] * p.x[b]) % 4,
   x |-> p.x,
   z |-> [p.z EXCEPT ![a] = (@ + p.x[b]) % 2, ![b] = (@ + p.x[a]) % 2]]

(* The derived gates are the sequences of h, s, sdag and cz that define    *)
(* them.                                                                   *)
RefCX(c, t, p) == RefOn("h", t, RefCZ(c, t, RefOn("h", t, p)))
RefXCX(c, t, p) == RefOn("h", c, RefCX(c, t, RefOn("h", c, p)))
RefYCX(c, t, p) == RefOn("s", c, RefXCX(c, t, RefOn("sdag", c, p)))
RefCY(c, t, p) == RefOn("s", t, RefCX(c, t, RefOn("sdag", t, p)))
RefYCY(c, t, p) == RefOn("s", t, RefYCX(c, t, RefOn("sdag", t, p)))

RefGate(call, p) ==
  CASE call.op \in GateOps -> RefOn(call.op, call.a, p)
    [] call.op = "cz" -> RefCZ(call.a, call.b, p)
    [] call.op = "cx" -> RefCX(call.a, call.b, p)
    [] call.op = "xcx" -> RefXCX(call.a, call.b, p)
    [] call.op = "ycx" -> RefYCX(call.a, call.b, p)
    [] call.op = "xcz" -> RefCX(call.b, call.a, p)
    [] call.op = "cy" -> RefCY(call.a, call.b, p)
    [] call.op = "ycz" -> RefCY(call.b, call.a, p)
    [] call.op = "xcy" -> RefYCX(call.b, call.a, p)
    [] call.op = "ycy" -> RefYCY(call.a, call.b, p)

(* C24: new(n) encodes |0...0>, and every Clifford gate of a run that has  *)
(* made gate calls only takes the encoded stabilizer state to the state    *)
(* the reference simulation gives for that gate; stated for the gates      *)
(* applied to a simple graph.                                              *)
C24_SemanticInvariant ==
  /\ [](ops = 0 => Stabilizers(nodes) = ZeroState(Qubits))
  /\ [][(results = <<>> /\ Simple(nodes)
           /\ last'.op \in GateOps \cup TwoQubitOps)
          => (fault' = NoFault
              /\ Stabilizers(nodes')
                   = {RefGate(last', p) : p \in Stabilizers(nodes)})]_vars

(***************************************************************************)
(* The state of cz(control, target) at the moment the CPHASE table is      *)
(* consulted, and the state before its second removal on the control.      *)
(***************************************************************************)
AtTable(g, control, target) ==
  cz_reduce(g, control, target,
            has_other(g, control, target), has_other(g, target, control))

BeforeThird(g, control, target) ==
  cz_second(cz_first(g, control, target, has_other(g, control, target)),
            control, target, has_other(g, target, control))

SecondRemovalRuns(g, control, target) ==
  /\ has_other(g, control, target)
  /\ Ok(BeforeThird(g, control, target))
  /\ ~is_in_z(BeforeThird(g, control, target).nodes[control].vop)

(* C25: in cz(control, target) with control # target, called on a simple   *)
(* graph, when the CPHASE table is consulted every endpoint whose          *)
(* has-other-neighbour flag was true at entry has a VOP in {IA, ZA, YB,    *)
(* XB}; when the second removal on the control runs, it leaves the         *)
(* control's VOP in Z and does not take the target's VOP out of Z.         *)
C25_ReducedBeforeTable ==
  (fault = NoFault /\ Simple(nodes)) =>
    \A p \in Pairs :
      Ok(AtTable(Sim, p[1], p[2])) =>
        /\ has_other(Sim, p[1], p[2])
             => is_in_z(AtTable(Sim, p[1], p[2]).nodes[p[1]].vop)
        /\ has_other(Sim, p[2], p[1])
             => is_in_z(AtTable(Sim, p[1], p[2]).nodes[p[2]].vop)
        /\ SecondRemovalRuns(Sim, p[1], p[2]) =>
             /\ is_in_z(AtTable(Sim, p[1], p[2]).nodes[p[1]].vop)
             /\ is_in_z(BeforeThird(Sim, p[1], p[2]).nodes[p[2]].vop)
                  => is_in_z(AtTable(Sim, p[1], p[2]).nodes[p[2]].vop)

(***************************************************************************)
(* The private methods.                                                    *)
(***************************************************************************)
HasOtherNeighbour(ns, first, avoid) ==
  \E v \in Neighbours(ns, first) : v # avoid

(* C26: for each of the 24 VOPs of `first` and every graph in which        *)
(* `first` has a neighbour other than `avoid`, remove_vop(first, avoid)    *)
(* returns with the VOP of `first` in {IA, ZA, YB, XB}, after at most 5    *)
(* local complementations.                                                 *)
C26_RemoveVop ==
  [][(last'.op = "remove_vop" /\ HasOtherNeighbour(nodes, last'.a, last'.b))
       => (/\ fault' = NoFault
           /\ nodes'[last'.a].vop \in {IA, ZA, YB, XB}
           /\ remove_vop_calls(Sim, last'.a) <= 5)]_vars

C26_Witness ==
  /\ last.op = "remove_vop"
  /\ fault = NoFault
  /\ Cardinality(Qubits) = MaxInternalN
  /\ nodes[last.a].vop = IA
  /\ Len(nodes[last.a].adjacent) = MaxInternalN - 1
  /\ contains(nodes[last.a].adjacent, last.b)
  /\ HasOtherNeighbour(nodes, last.a, last.b)

(* C27 as stated: whenever `first` has a neighbour other than `avoid`,     *)
(* remove_vop(first, avoid) leaves the VOP and the adjacency list of       *)
(* `avoid` as they were.                                                   *)
C27_AvoidUntouched ==
  [][(last'.op = "remove_vop" /\ HasOtherNeighbour(nodes, last'.a, last'.b))
       => nodes'[last'.b] = nodes[last'.b]]_vars

(* The VOPs v * S^k: what right-multiplications by S make of v. *)
TimesPowersOfS(v) == {mul(v, zv) : zv \in {IA, YB, ZA, XB}}

(* C27 as amended: whenever `first` has a neighbour other than `avoid`,    *)
(* remove_vop(first, avoid) takes as pivot a neighbour of `first` other    *)
(* than `avoid`, so it never complements at `avoid`, and it changes the    *)
(* VOP of `avoid` only by multiplying it by S on the right, so a VOP in Z  *)
(* stays in Z.  The edges of `avoid` and its VOP can change.               *)
C27_AvoidNotPivot ==
  [][(last'.op = "remove_vop" /\ HasOtherNeighbour(nodes, last'.a, last'.b))
       => (/\ fault' = NoFault
           /\ remove_vop_second(Sim, last'.a, last'.b) # last'.b
           /\ remove_vop_second(Sim, last'.a, last'.b)
                \in Neighbours(nodes, last'.a)
           /\ nodes'[last'.b].vop \in TimesPowersOfS(nodes[last'.b].vop)
           /\ is_in_z(nodes[last'.b].vop) => is_in_z(nodes'[last'.b].vop))]_vars

(* `avoid` is a neighbour of `first`, was given the VOP ZD and has had it  *)
(* multiplied by S.                                                        *)
C27_Witness ==
  /\ last.op = "remove_vop"
  /\ fault = NoFault
  /\ contains(nodes[last.a].adjacent, last.b)
  /\ HasOtherNeighbour(nodes, last.a, last.b)
  /\ nodes[last.b].vop \in TimesPowersOfS(ZD) \ {ZD}
  /\ \A u \in Qubits \ {last.b} : nodes[u].vop \notin TimesPowersOfS(ZD)


(* The edges of the graph as unordered pairs, and the edge u - v. *)
HasEdge(ns, u, v) ==
  contains(ns[u].adjacent, v) /\ contains(ns[v].adjacent, u)

NoEdge(ns, u, v) ==
  ~contains(ns[u].adjacent, v) /\ ~contains(ns[v].adjacent, u)

(* toggle_edge(u, v) has removed the edge on both sides if it was there    *)
(* and added it on both sides otherwise, and left every other edge alone.  *)
Toggled(before, after, u, v) ==
  /\ DOMAIN after = DOMAIN before
  /\ IF contains(before[u].adjacent, v) THEN NoEdge(after, u, v)
                                         ELSE HasEdge(after, u, v)
  /\ \A c, d \in DOMAIN before :
       {c, d} # {u, v}
         => (contains(after[c].adjacent, d) <=> contains(before[c].adjacent, d))
  /\ \A c \in DOMAIN before : after[c].vop = before[c].vop

(* C28: toggle_edge(u, v) with u # v removes the edge on both sides if v   *)
(* is in adj(u) and otherwise adds it on both sides, and it returns true   *)
(* exactly when the edge exists after the call.                            *)
C28_ToggleEdge ==
  [][last'.op = "toggle_edge"
       => (/\ Toggled(nodes, nodes', last'.a, last'.b)
           /\ toggle_edge_ret(Sim, last'.a, last'.b)
                <=> HasEdge(nodes', last'.a, last'.b))]_vars


(* What local_comp(v) does to the graph: the edge between two distinct     *)
(* neighbours of v is toggled, every other edge is kept, adj(v) is the     *)
(* same list and a node outside {v} and adj(v) is the same node.           *)
Complemented(before, after, v) ==
  /\ DOMAIN after = DOMAIN before
  /\ \A c, d \in DOMAIN before :
       c # d =>
         (contains(after[c].adjacent, d)
            <=> IF {c, d} \subseteq Neighbours(before, v)
                THEN ~contains(before[c].adjacent, d)
                ELSE contains(before[c].adjacent, d))
  /\ \A c \in DOMAIN before : ~contains(after[c].adjacent, c)
  /\ after[v].adjacent = before[v].adjacent
  /\ \A c \in DOMAIN before \ ({v} \cup Neighbours(before, v)) :
       after[c] = before[c]

(* C29 as stated: local_comp(v) complements the neighbourhood of v, each   *)
(* neighbour a of v gets the VOP mul(S, vop(a)) with S on the left, and    *)
(* vop(v) is multiplied by YD.                                             *)
C29_LocalCompLeft ==
  [][last'.op = "local_comp"
       => (/\ fault' = NoFault
           /\ Complemented(nodes, nodes', last'.a)
           /\ \A c \in Neighbours(nodes, last'.a) :
                nodes'[c].vop = mul(S_GATE, nodes[c].vop)
           /\ nodes'[last'.a].vop = mul(nodes[last'.a].vop, YD))]_vars

(* C29 as amended: local_comp(v) complements the neighbourhood of v, each  *)
(* neighbour a of v gets the VOP mul(vop(a), S) with S on the right, and   *)
(* vop(v) becomes mul(vop(v), YD).                                         *)
C29_LocalCompRight ==
  [][last'.op = "local_comp"
       => (/\ fault' = NoFault
           /\ Complemented(nodes, nodes', last'.a)
           /\ \A c \in Neighbours(nodes, last'.a) :
                nodes'[c].vop = mul(nodes[c].vop, S_GATE)
           /\ nodes'[last'.a].vop = mul(nodes[last'.a].vop, YD))]_vars

(* local_comp has run on a node with MaxInternalN - 1 neighbours, two of   *)
(* them adjacent and two of them not, and a neighbour that had the VOP YC  *)
(* has YC * S, which is not S * YC.                                        *)
C29_Witness ==
  /\ last.op = "local_comp"
  /\ fault = NoFault
  /\ Cardinality(Neighbours(nodes, last.a)) = MaxInternalN - 1
  /\ \E c, d \in Neighbours(nodes, last.a) : c # d /\ HasEdge(nodes, c, d)
  /\ \E c, d \in Neighbours(nodes, last.a) : c # d /\ NoEdge(nodes, c, d)
  /\ \A c \in Neighbours(nodes, last.a) : nodes[c].vop = mul(YC, S_GATE)
  /\ mul(YC, S_GATE) # mul(S_GATE, YC)
  /\ nodes[last.a].vop = mul(XB, YD)


(* The three families of toggles of the X-measurement rewrite, on the      *)
(* adjacency sets before the rewrite: how many times the unordered pair    *)
(* {c, d}, c # d, is toggled.                                              *)
InCross(ns, node, other, c, d) ==
  \/ c \in Neighbours(ns, node) /\ d \in Neighbours(ns, other)
  \/ d \in Neighbours(ns, node) /\ c \in Neighbours(ns, other)

InCommon(ns, node, other, c, d) ==
  {c, d} \subseteq (Neighbours(ns, node) \cap Neighbours(ns, other))

InOther(ns, node, other, c, d) ==
  \/ c = other /\ d \in Neighbours(ns, node) \ {other}
  \/ d = other /\ c \in Neighbours(ns, node) \ {other}

Toggles(ns, node, other, c, d) ==
  (IF InCross(ns, node, other, c, d) THEN 1 ELSE 0)
  + (IF InCommon(ns, node, other, c, d) THEN 1 ELSE 0)
  + (IF InOther(ns, node, other, c, d) THEN 1 ELSE 0)

X_Post(before, after, node, other) ==
  /\ DOMAIN after = DOMAIN before
  /\ Simple(after)
  /\ \A c, d \in DOMAIN before :
       c # d =>
         (contains(after[c].adjacent, d)
            <=> IF Toggles(before, node, other, c, d) % 2 = 1
                THEN ~contains(before[c].adjacent, d)
                ELSE contains(before[c].adjacent, d))

(* C30: int_measure_x on a non-isolated node, with other its first         *)
(* neighbour, leaves the initial edges with these toggles applied: each    *)
(* unordered pair {c, d}, c in adj(node), d in adj(other), c # d, once;    *)
(* each pair of distinct nodes of adj(node) \cap adj(other) once more;     *)
(* each pair {other, c}, c in adj(node) \ {other}, once more; and it       *)
(* returns deterministic = false.                                          *)
C30_MeasureXRewrite ==
  [][(last'.op = "int_measure_x" /\ nodes[last'.a].adjacent # <<>>)
       => (/\ fault' = NoFault
           /\ ~last'.det
           /\ X_Post(nodes, nodes', last'.a, nodes[last'.a].adjacent[1]))]_vars

(* int_measure_x has run on a non-isolated node of MaxInternalN and has    *)
(* left it isolated and the other nodes pairwise adjacent, as it does      *)
(* from the complete graph, where the two neighbourhoods share two nodes.  *)
C30_Witness ==
  /\ last.op = "int_measure_x"
  /\ fault = NoFault
  /\ ~last.det
  /\ Cardinality(Qubits) = MaxInternalN
  /\ nodes[last.a].adjacent = <<>>
  /\ \A c, d \in Qubits \ {last.a} : c # d => HasEdge(nodes, c, d)


(* Every way peek_measure_set can run on the current simulator: the log of *)
(* its consultations of the random source.  The claims look at it in the   *)
(* states where a call can still be made.                                  *)
PeekLogs ==
  {peek_rng(Sim, qubits, 1, run[1], run[2], <<>>) :
     qubits \in PeekOrders,
     run \in [1 .. MaxPeek -> Axes] \X [1 .. MaxPeek -> MeasurementResults]}

(* C31 as stated: every measure_x, measure_y or measure_z consults the     *)
(* random source exactly once for the outcome, whatever the state of the   *)
(* measured qubit, and peek_measure_set consults it once more per peeked   *)
(* qubit, for the axis, exactly when that qubit is not isolated.           *)
C31_RngOnce ==
  fault = NoFault =>
    /\ \A q \in Qubits, axis \in Axes, res \in MeasurementResults :
         measure(Sim, q, axis, res).rng = 1
    /\ CanCall =>
         \A log \in PeekLogs : \A k \in DOMAIN log :
           log[k].axis = IF log[k].isolated THEN 0 ELSE 1

(* C31 as amended: a measurement consults the random source once for the   *)
(* outcome, except that it does not consult it when the measured qubit is  *)
(* isolated and the axis it dispatches on is X; peek_measure_set consults  *)
(* it for the axis of a peeked qubit exactly when that qubit is not        *)
(* isolated in the working copy when its turn comes, and then once more    *)
(* for its outcome.                                                        *)
C31_RngOnceUnlessDeterministic ==
  fault = NoFault =>
    /\ \A q \in Qubits, axis \in Axes, res \in MeasurementResults :
         measure(Sim, q, axis, res).rng =
           IF nodes[q].adjacent = <<>> /\ measure_basis(Sim, q, axis) = Axis_X
           THEN 0 ELSE 1
    /\ CanCall =>
         \A log \in PeekLogs : \A k \in DOMAIN log :
           /\ log[k].axis = IF log[k].isolated THEN 0 ELSE 1
           /\ log[k].outcome = log[k].axis

(* measure_z has returned deterministically from an isolated qubit, with   *)
(* two other qubits joined by an edge: peeking at both finds the second    *)
(* isolated in the working copy.                                           *)
C31_Witness ==
  /\ last.op = "measure_z"
  /\ last.det
  /\ fault = NoFault
  /\ nodes[last.a].adjacent = <<>>
  /\ CanCall
  /\ \E log \in PeekLogs :
       /\ Len(log) = MaxPeek
       /\ ~log[1].isolated /\ log[1].axis = 1 /\ log[1].outcome = 1
       /\ log[2].isolated /\ log[2].axis = 0 /\ log[2].outcome = 0
       /\ ~contains(nodes[log[2].idx].adjacent, last.a)
       /\ nodes[log[2].idx].adjacent # <<>>


(* The formula for zeta: with r the index of the VOP mod 4 and h whether   *)
(* the VOP is one of IB .. ZD, Two exactly when (r = 0 or r = axis         *)
(* index + 1) XOR (not h).                                                 *)
ZetaFormula(a, axis_index) ==
  LET residue == a % 4
      middle == a \in {IB, XB, YB, ZB, IC, XC, YC, ZC, ID, XD, YD, ZD}
      hit == (residue = 0 \/ residue = axis_index + 1)
  IN  IF hit # (~middle) THEN "Two" ELSE "Zero"

(* What the routine measure dispatches to returns for the draw `res`. *)
PerAxis(g, node, basis, res) ==
  CASE basis = Axis_X -> [g |-> int_measure_x(g, node, res).g,
                          res |-> int_measure_x(g, node, res).res]
    [] basis = Axis_Y -> [g |-> int_measure_y(g, node, res), res |-> res]
    [] basis = Axis_Z -> [g |-> int_measure_z(g, node, res), res |-> res]

(* The result measure hands back: the routine's, the other one if zeta is  *)
(* Two.                                                                    *)
FlippedWhenTwo(routine, zeta, returned) ==
  IF zeta = "Two" THEN returned # routine ELSE returned = routine

(* C32: find_zeta is the formula for all 24 VOPs and all 3 axes, and a     *)
(* measurement that returns hands back the result of the per-axis routine  *)
(* flipped exactly when zeta, taken at the adjoint of the VOP, is Two.     *)
C32_Zeta ==
  /\ [](\A a \in Vops, axis \in Axes : find_zeta(a, axis) = ZetaFormula(a, axis))
  /\ [][(last'.op \in MeasureOps /\ fault' = NoFault)
          => \E res \in MeasurementResults :
               /\ PerAxis(Sim, last'.a, last'.basis, res).g.nodes = nodes'
               /\ FlippedWhenTwo(PerAxis(Sim, last'.a, last'.basis, res).res,
                                 ZetaFormula(adj(nodes[last'.a].vop),
                                             AxisOf(last'.op)),
                                 last'.res)]_vars

(* A measurement has returned -1 on the deterministic path, where the      *)
(* routine returns +1: zeta was Two and the result was flipped.            *)
C32_Witness ==
  /\ last.op \in MeasureOps
  /\ fault = NoFault
  /\ last.det
  /\ last.res = MinusOne
  /\ find_zeta(adj(nodes[last.a].vop), AxisOf(last.op)) = "Two"


(* The state of cz(control, target) before its removal on the target. *)
AfterFirst(g, control, target) ==
  cz_first(g, control, target, has_other(g, control, target))

(* remove_vop(first, avoid) called on g has a pivot that is a neighbour of *)
(* `first` and is not `avoid`.                                             *)
ValidPivot(g, first, avoid) ==
  /\ has_other(g, first, avoid)
  /\ remove_vop_second(g, first, avoid) # avoid
  /\ contains(g.nodes[first].adjacent, remove_vop_second(g, first, avoid))

(* The removals cz(control, target) makes: that on the control, that on    *)
(* the target, the second one on the control.                              *)
FirstRemovalValid(g, control, target) ==
  has_other(g, control, target) => ValidPivot(g, control, target)

SecondRemovalValid(g, control, target) ==
  (has_other(g, target, control) /\ Ok(AfterFirst(g, control, target)))
    => ValidPivot(AfterFirst(g, control, target), target, control)

ThirdRemovalValid(g, control, target) ==
  SecondRemovalRuns(g, control, target)
    => ValidPivot(BeforeThird(g, control, target), control, target)

(* C33: every time cz(control, target), control # target, called on a      *)
(* simple graph, invokes remove_vop(first, avoid), `first` has at that     *)
(* moment a neighbour other than `avoid`, and the pivot is a neighbour of  *)
(* `first` that is not `avoid`; for each of the three invocations.         *)
C33_PivotValidity ==
  (fault = NoFault /\ Simple(nodes)) =>
    \A p \in Pairs :
      /\ FirstRemovalValid(Sim, p[1], p[2])
      /\ SecondRemovalValid(Sim, p[1], p[2])
      /\ ThirdRemovalValid(Sim, p[1], p[2])


(* In g, `endpoint` has a VOP in {IA, ZA, YB, XB} or no neighbour other    *)
(* than `partner`.                                                         *)
Reduced(g, endpoint, partner) ==
  ~is_in_z(g.nodes[endpoint].vop) => ~has_other(g, endpoint, partner)

(* C34: in cz(control, target), control # target, called on a simple       *)
(* graph, when the CPHASE table is consulted an endpoint whose VOP is not  *)
(* in {IA, ZA, YB, XB} has no neighbour other than the other endpoint, in  *)
(* the graph as it is at the lookup.                                       *)
C34_CphasePrecondition ==
  (fault = NoFault /\ Simple(nodes)) =>
    \A p \in Pairs :
      Ok(AtTable(Sim, p[1], p[2])) =>
        /\ Reduced(AtTable(Sim, p[1], p[2]), p[1], p[2])
        /\ Reduced(AtTable(Sim, p[1], p[2]), p[2], p[1])


(* measure(q, axis) on g returns `result` whatever the random source       *)
(* gives, and leaves g as it is.                                           *)
Repeats(g, q, axis, result) ==
  \A again \in MeasurementResults :
    /\ measure(g, q, axis, again).g = g
    /\ measure(g, q, axis, again).res = result

(* C35: in a reachable state, if measure_x, measure_y or measure_z of q    *)
(* returns r, the same measurement of q made right after it returns r in   *)
(* every execution and does not change the state: for the measurement     *)
(* that was last called, and for every measurement that can be called.     *)
C35_Repeatable ==
  fault = NoFault =>
    /\ last.op \in MeasureOps
         => Repeats(Sim, last.a, AxisOf(last.op), last.res)
    /\ \A q \in Qubits, axis \in Axes, res \in MeasurementResults :
         Ok(measure(Sim, q, axis, res).g)
           => Repeats(measure(Sim, q, axis, res).g, q, axis,
                      measure(Sim, q, axis, res).res)


(* q has no neighbour and no node lists q. *)
Isolated(ns, q) ==
  /\ ns[q].adjacent = <<>>
  /\ \A u \in DOMAIN ns : ~contains(ns[u].adjacent, q)

(* C36: after every measure_x, measure_y or measure_z of q that returned,  *)
(* q is isolated: adj(q) is empty and no other node lists q; for the       *)
(* measurement that was last called, and for every measurement that can be *)
(* called.                                                                 *)
C36_MeasuredIsolated ==
  fault = NoFault =>
    /\ last.op \in MeasureOps => Isolated(nodes, last.a)
    /\ \A q \in Qubits, axis \in Axes, res \in MeasurementResults :
         Ok(measure(Sim, q, axis, res).g)
           => Isolated(measure(Sim, q, axis, res).g.nodes, q)


(* v multiplied on the right by YD for every U and by YB (S) for every V   *)
(* of the word, in the order of the word.                                  *)
RECURSIVE TimesWord(_, _)
TimesWord(v, word) ==
  IF word = <<>> THEN v
  ELSE TimesWord(mul(v, IF Head(word) = "U" THEN YD ELSE YB), Tail(word))

(* C37: for each of the 24 VOPs v, v times the word decomp(v) is IA, and   *)
(* remove_vop on a node that has a neighbour other than `avoid` leaves the *)
(* VOP of the node equal to IA.                                            *)
C37_DecompToIdentity ==
  /\ [](\A v \in Vops : TimesWord(v, decomp(v)) = IA)
  /\ [][(last'.op = "remove_vop" /\ HasOtherNeighbour(nodes, last'.a, last'.b))
          => (/\ fault' = NoFault
              /\ nodes'[last'.a].vop = TimesWord(nodes[last'.a].vop,
                                                 decomp(nodes[last'.a].vop))
              /\ nodes'[last'.a].vop = IA)]_vars

(* remove_vop has brought to IA the VOP of a node that is left with the    *)
(* pivot as its only neighbour, `avoid` not being one; the VOP of the      *)
(* pivot has changed with the complementations.                            *)
C37_Witness ==
  /\ last.op = "remove_vop"
  /\ fault = NoFault
  /\ nodes[last.a].vop = IA
  /\ Len(nodes[last.a].adjacent) = 1
  /\ nodes[last.a].adjacent[1] # last.b
  /\ nodes[nodes[last.a].adjacent[1]].vop \notin {YC, IA}


(* The VOPs that commute with Z. *)
InZ == {IA, ZA, YB, XB}

(* C38: for every edge bit e and all a, b in {IA, ZA, YB, XB},             *)
(* CPHASE_TABLE[e][a][b] = (not e, a, b); cz on two qubits that have such  *)
(* VOPs and no other neighbour toggles the edge between them and leaves    *)
(* both VOPs as they were.                                                 *)
C38_CphaseOnInZ ==
  /\ [](\A e \in {0, 1}, a \in InZ, b \in InZ :
          CPHASE_TABLE[e + 1][a + 1][b + 1] = <<e = 0, a, b>>)
  /\ [][(/\ last'.op = "cz"
         /\ nodes[last'.a].vop \in InZ /\ nodes[last'.b].vop \in InZ
         /\ ~has_other(Sim, last'.a, last'.b)
         /\ ~has_other(Sim, last'.b, last'.a))
          => (/\ fault' = NoFault
              /\ Toggled(nodes, nodes', last'.a, last'.b))]_vars

(* cz has removed the edge between two qubits with distinct VOPs in        *)
(* {IA, ZA, YB, XB}.                                                       *)
C38_Witness ==
  /\ last.op = "cz"
  /\ fault = NoFault
  /\ nodes[last.a].vop \in InZ /\ nodes[last.b].vop \in InZ
  /\ nodes[last.a].vop # nodes[last.b].vop
  /\ NoEdge(nodes, last.a, last.b)
  /\ script = VopScript


(* The CPHASE table keeps an operand that commutes with Z commuting with   *)
(* Z: as control and as target.                                            *)
TableKeepsInZ ==
  \A e \in {0, 1}, a \in InZ, b \in Vops :
    /\ CPHASE_TABLE[e + 1][a + 1][b + 1][2] \in InZ
    /\ CPHASE_TABLE[e + 1][b + 1][a + 1][3] \in InZ

(* After cz(control, target), an endpoint that has a neighbour other than  *)
(* the other endpoint has a VOP in {IA, ZA, YB, XB}.                       *)
LeftInZ(ns, endpoint, partner) ==
  HasOtherNeighbour(ns, endpoint, partner) => is_in_z(ns[endpoint].vop)

(* C39: for every edge bit e, every a in {IA, ZA, YB, XB} and every VOP b, *)
(* the new control VOP of CPHASE_TABLE[e][a][b] and the new target VOP of  *)
(* CPHASE_TABLE[e][b][a] are in {IA, ZA, YB, XB}; and cz, called on a      *)
(* simple graph, never leaves an endpoint that has other neighbours with a *)
(* VOP outside that set.                                                   *)
C39_InZKept ==
  /\ []TableKeepsInZ
  /\ [][(last'.op = "cz" /\ last'.a # last'.b /\ Simple(nodes)
         /\ fault' = NoFault)
          => (/\ LeftInZ(nodes', last'.a, last'.b)
              /\ LeftInZ(nodes', last'.b, last'.a))]_vars

==============================================================================
